---- MODULE Spec2Model ----
(***************************************************************************)
(* Ordo: restaurant ordering and reservation backend (tRPC routers over a  *)
(* relational store).  The store is the shared state; every RPC call is a  *)
(* request that runs createContext, then the procedure's middleware, then  *)
(* the handler.  A handler is cut into steps at the database calls it      *)
(* awaits, so that concurrent requests interleave exactly where the code   *)
(* can be suspended.                                                       *)
(*                                                                         *)
(* Money is kept in centavos (1/100 peso) so that the 16% tax is an        *)
(* integer for every price used here.                                      *)
(***************************************************************************)
EXTENDS Integers, Sequences, FiniteSets, TLC

VARIABLES
    staff,          \* StaffUser table: id -> [role, isActive]
    users,          \* User rows (a sequence): [id, email, role]
    configs,        \* RestaurantConfig rows (a sequence, ids are positions)
    categories,     \* MenuCategory table: id -> [isActive]
    menu,           \* MenuItem table: id -> [categoryId, price, isAvailable, modifiers]
    customers,      \* Customer rows (a sequence, ids are positions)
    orders,         \* Order rows (a sequence, ids are positions)
    orderItems,     \* OrderItem rows, each with the id of its Order
    reservations,   \* Reservation rows
    req,            \* the requests in flight: request slot -> its position and locals
    resp,           \* the response sent by the step just taken, if it ended a request
    client          \* the browser: the fields of the store, the auth_token of
                    \* localStorage, the logout calls waiting for signOut

vars ==
    <<staff, users, configs, categories, menu, customers, orders, orderItems, reservations, req, resp, client>>

store == <<staff, users, configs, categories, menu, customers, orders, orderItems, reservations>>

-----------------------------------------------------------------------------
(* Bounds of the model *)

MaxOrders == 1
MaxCustomerOrders == 2
MaxReservations == 3
MaxQty == 2
MaxSlotReservations == 4
MaxUsers == 2
MaxCartQty == 2
MaxSignOuts == 2

-----------------------------------------------------------------------------
(* Values *)

Null == "null"

\* an optional value that is not a string: absent, or the one value present
None == {}
Some(v) == {v}
The(x) == CHOOSE v \in x : TRUE

Procs == {"r1", "r2"}

StaffRoles == {"ADMIN", "KITCHEN", "WAITER", "CASHIER"}

AdminOnly == {"ADMIN"}
KitchenRoles == {"ADMIN", "KITCHEN"}
AllStaffRoles == {"ADMIN", "KITCHEN", "WAITER", "CASHIER"}

OrderTypes == {"DINE_IN", "TAKEOUT", "DELIVERY"}

OrderStatuses ==
    {"PENDING", "CONFIRMED", "PREPARING", "READY", "OUT_FOR_DELIVERY",
     "DELIVERED", "COMPLETED", "CANCELLED"}

ReservationStatuses ==
    {"PENDING", "CONFIRMED", "SEATED", "COMPLETED", "CANCELLED", "NO_SHOW"}

TaxRatePercent == 16

RECURSIVE SumSeq(_)
SumSeq(s) == IF s = <<>> THEN 0 ELSE Head(s) + SumSeq(Tail(s))

Range(s) == {s[i] : i \in DOMAIN s}

-----------------------------------------------------------------------------
(* Requests *)

NoUser == [id |-> Null, role |-> Null]

\* a bearer token: whether it verifies, and the userId and role of its payload
NoToken == [kind |-> "absent", userId |-> Null, role |-> Null]

\* ran: the handler body was entered; wrote: the tables this request has written
Idle ==
    [pc |-> "idle", proc |-> "none", tok |-> NoToken, lookupOk |-> TRUE,
     user |-> NoUser, ran |-> FALSE, wrote |-> {}, loc |-> <<>>]

NoResp ==
    [p |-> Null, proc |-> "none", tok |-> NoToken, lookupOk |-> TRUE, user |-> NoUser,
     result |-> "none", ran |-> FALSE, wrote |-> {}, loc |-> <<>>, out |-> 0]

\* the request goes on: r is its new position and locals
Continue(p, r) ==
    /\ req' = [req EXCEPT ![p] = r]
    /\ resp' = NoResp
    /\ UNCHANGED client

\* the request ends: its result code and what the handler returned go to the caller
Done(p, r, code, out) ==
    /\ req' = [req EXCEPT ![p] = Idle]
    /\ resp' = [p |-> p, proc |-> r.proc, tok |-> r.tok, lookupOk |-> r.lookupOk,
                user |-> r.user, result |-> code, ran |-> r.ran, wrote |-> r.wrote,
                loc |-> r.loc, out |-> out]
    /\ UNCHANGED client

Fail(p, r, code) == Done(p, r, code, 0)

-----------------------------------------------------------------------------
(* Context builder *)

\* the staff users of the deployment
StaffSeed ==
    [i \in {"staff-1", "staff-2", "staff-3", "staff-4"} |->
        CASE i = "staff-1" -> [role |-> "ADMIN", isActive |-> TRUE]
          [] i = "staff-2" -> [role |-> "KITCHEN", isActive |-> TRUE]
          [] i = "staff-3" -> [role |-> "WAITER", isActive |-> TRUE]
          [] i = "staff-4" -> [role |-> "CASHIER", isActive |-> FALSE]]

\* the role a token issued to a user id carries: the role the user had then
IssuedRole(id) == IF id \in DOMAIN StaffSeed THEN StaffSeed[id].role ELSE Null

BearerTokens(ids) ==
    {NoToken, [kind |-> "empty", userId |-> Null, role |-> Null],
     [kind |-> "invalid", userId |-> Null, role |-> Null],
     [kind |-> "expired", userId |-> Null, role |-> Null],
     [kind |-> "valid", userId |-> Null, role |-> Null]}
    \cup {[kind |-> "valid", userId |-> i, role |-> IssuedRole(i)] : i \in ids}

\* jwt.verify: throws unless the token verifies against the secret and is unexpired
Verifies(tok) == tok.kind = "valid"

createContextAnyRecord(tok, lookupOk, tbl) ==
    IF Verifies(tok) /\ tok.userId \in DOMAIN tbl /\ lookupOk
    THEN [threw |-> FALSE, user |-> [id |-> tok.userId, role |-> tbl[tok.userId].role]]
    ELSE [threw |-> FALSE, user |-> NoUser]

\* a context builder that trusts the role of the token's payload
createContextTokenRole(tok, lookupOk, tbl) ==
    IF Verifies(tok) /\ tok.userId # Null /\ lookupOk
       /\ tok.userId \in DOMAIN tbl /\ tbl[tok.userId].isActive
    THEN [threw |-> FALSE, user |-> [id |-> tok.userId, role |-> tok.role]]
    ELSE [threw |-> FALSE, user |-> NoUser]

\* createContext: [threw, user].  Every failure inside the try block is caught.
createContext(tok, lookupOk, tbl) ==
    IF tok.kind \in {"absent", "empty"}
    THEN [threw |-> FALSE, user |-> NoUser]
    ELSE IF ~Verifies(tok)
    THEN [threw |-> FALSE, user |-> NoUser]
    ELSE IF tok.userId = Null
    THEN [threw |-> FALSE, user |-> NoUser]
    ELSE IF ~lookupOk
    THEN [threw |-> FALSE, user |-> NoUser]
    ELSE IF tok.userId \in DOMAIN tbl /\ tbl[tok.userId].isActive
    THEN [threw |-> FALSE, user |-> [id |-> tok.userId, role |-> tbl[tok.userId].role]]
    ELSE [threw |-> FALSE, user |-> NoUser]

\* A request arrives: the server builds its context before routing it.
CreateContext(p, tok, lookupOk, proc) ==
    /\ req[p].pc = "idle"
    /\ LET c == createContext(tok, lookupOk, staff)
           r == [Idle EXCEPT !.proc = proc, !.tok = tok, !.lookupOk = lookupOk]
       IN IF c.threw THEN Fail(p, r, "INTERNAL_SERVER_ERROR")
          ELSE Continue(p, [r EXCEPT !.pc = "ctx", !.user = c.user])
    /\ UNCHANGED store

-----------------------------------------------------------------------------
(* Authorization middleware *)

isAuthed(user) == IF user = NoUser THEN "UNAUTHORIZED" ELSE "next"

requireRoleAnyUser(roles, user) == IF user = NoUser THEN "UNAUTHORIZED" ELSE "next"

requireRole(roles, user) ==
    IF user = NoUser THEN "UNAUTHORIZED"
    ELSE IF user.role \notin roles THEN "FORBIDDEN"
    ELSE "next"

\* the middleware chain of a procedure: no gate, isAuthed, or requireRole(roles)
Gate(kind, user) ==
    CASE kind = "public" -> "next"
      [] kind = "protected" -> isAuthed(user)
      [] kind = "admin" -> requireRole(AdminOnly, user)
      [] kind = "kitchen" -> requireRole(KitchenRoles, user)
      [] kind = "staff" -> requireRole(AllStaffRoles, user)

-----------------------------------------------------------------------------
(* Restaurant configuration rows *)

\* restaurantConfig.findFirst({ where: { isActive: true } }): any active row, or null
ActiveConfigs == {c \in Range(configs) : c.isActive}

FindFirstActive ==
    IF ActiveConfigs = {} THEN {None} ELSE {Some(c) : c \in ActiveConfigs}

-----------------------------------------------------------------------------
(* Order workflow: create *)

\* dbUtils.calculateOrderTotal(subtotal, taxRate, deliveryFee, tip, discount)
calculateOrderTotal(subtotal, ratePercent, deliveryFee, tip, discount) ==
    LET tax == (subtotal * ratePercent) \div 100
    IN [subtotal |-> subtotal, taxAmount |-> tax, deliveryFee |-> deliveryFee,
        total |-> subtotal + tax + deliveryFee + tip - discount]

\* dbUtils.generateOrderNumber(): a number no stored order carries
generateOrderNumber(rows) == Len(rows) + 1

\* column defaults of a new Order row
OrderDefaults ==
    [status |-> "PENDING", paymentStatus |-> "PENDING", tipAmount |-> 0,
     discountAmount |-> 0, paymentReference |-> Null, readyAt |-> Null,
     deliveredAt |-> Null, estimatedReadyTime |-> Null]

\* the modifiers of the request found on the menu item, in request order
RECURSIVE AppliedModifiers(_, _)
AppliedModifiers(requested, onItem) ==
    IF requested = <<>> THEN <<>>
    ELSE LET m == Head(requested)
             rest == AppliedModifiers(Tail(requested), onItem)
         IN IF m \in DOMAIN onItem
            THEN <<[id |-> m, priceAdjustment |-> onItem[m]]>> \o rest
            ELSE rest

ProcessItemOnce(item, menuItem) ==
    LET applied == AppliedModifiers(item.modifiers, menuItem.modifiers)
        itemPrice == menuItem.price
                     + SumSeq([i \in DOMAIN applied |-> applied[i].priceAdjustment])
    IN [menuItemId |-> item.menuItemId, quantity |-> item.quantity,
        unitPrice |-> itemPrice, totalPrice |-> itemPrice, modifiers |-> applied]

\* one turn of the item loop on a fetched, available menu item
ProcessItem(item, menuItem) ==
    LET applied == AppliedModifiers(item.modifiers, menuItem.modifiers)
        itemPrice == menuItem.price
                     + SumSeq([i \in DOMAIN applied |-> applied[i].priceAdjustment])
    IN [menuItemId |-> item.menuItemId, quantity |-> item.quantity,
        unitPrice |-> itemPrice, totalPrice |-> itemPrice * item.quantity,
        modifiers |-> applied]

\* the delivery block without its minimum-order check
DeliveryFeeNoMinimum(orderType, subtotal, config) ==
    IF orderType # "DELIVERY" THEN [code |-> "next", fee |-> 0]
    ELSE IF config = None \/ The(config).deliveryConfig = None
    THEN [code |-> "next", fee |-> 0]
    ELSE LET d == The(The(config).deliveryConfig) IN
         IF d.is_free_over_amount # None /\ The(d.is_free_over_amount) # 0
            /\ subtotal >= The(d.is_free_over_amount)
         THEN [code |-> "next", fee |-> 0]
         ELSE [code |-> "next", fee |-> d.fee]

\* the delivery block: [code, fee] from the order type, the subtotal and the config read
DeliveryFee(orderType, subtotal, config) ==
    IF orderType # "DELIVERY" THEN [code |-> "next", fee |-> 0]
    ELSE IF config = None \/ The(config).deliveryConfig = None
    THEN [code |-> "next", fee |-> 0]
    ELSE LET d == The(The(config).deliveryConfig) IN
         IF subtotal < d.minimum_order THEN [code |-> "PRECONDITION_FAILED", fee |-> 0]
         ELSE IF d.is_free_over_amount # None /\ The(d.is_free_over_amount) # 0
                 /\ subtotal >= The(d.is_free_over_amount)
         THEN [code |-> "next", fee |-> 0]
         ELSE [code |-> "next", fee |-> d.fee]

\* customer.findUnique({ where: { phone } })
FindCustomerByPhone(phone) ==
    IF \E i \in DOMAIN customers : customers[i].phone = phone
    THEN CHOOSE i \in DOMAIN customers : customers[i].phone = phone
    ELSE 0

\* updateData: the fields the customer read lacks and the request supplies
\* (Null: the field is not part of the update)
CustomerBackfill(customer, name, email) ==
    [name |-> IF customer.name = Null /\ name # Null THEN name ELSE Null,
     email |-> IF customer.email = Null /\ email # Null THEN email ELSE Null]

\* the requests running a procedure
Running(proc) == {q \in Procs : req[q].proc = proc /\ req[q].pc \notin {"idle", "ctx"}}

\* room for one more order under the cap
OrderRoom(cap) == Len(orders) + Cardinality(Running("order.create")) < cap

\* create: the handler starts (public procedure, no gate)
OrderCreateStart(p, orderType, phone, name, email, hasAddress, n) ==
    /\ req[p].pc = "ctx" /\ req[p].proc = "order.create"
    /\ Gate("public", req[p].user) = "next"
    /\ Continue(p, [req[p] EXCEPT !.pc = "oc_item", !.ran = TRUE,
                 !.loc = [orderType |-> orderType, phone |-> phone, name |-> name,
                          email |-> email, hasAddress |-> hasAddress, remaining |-> n,
                          subtotal |-> 0, processedItems |-> <<>>, config |-> None,
                          deliveryFee |-> 0, customer |-> 0, update |-> None,
                          item |-> None]])
    /\ UNCHANGED store

\* the end of the item loop: DELIVERY orders read the config next
AfterItems(orderType) == IF orderType = "DELIVERY" THEN "oc_config" ELSE "oc_customer"

OrderableIfListed(menuItemId) == menuItemId \in DOMAIN menu

\* menuItem.findUnique found a row and the row is available
Orderable(menuItemId) == menuItemId \in DOMAIN menu /\ menu[menuItemId].isAvailable

\* create: menuItem.findUnique for the next line item, then its price
OrderCreateItem(p, item) ==
    /\ req[p].pc = "oc_item"
    /\ LET r == [req[p] EXCEPT !.loc = [@ EXCEPT !.item = Some(item)]]
       IN IF ~Orderable(item.menuItemId)
          THEN Fail(p, r, "NOT_FOUND")
          ELSE LET line == ProcessItem(item, menu[item.menuItemId])
                   left == r.loc.remaining - 1
               IN Continue(p, [r EXCEPT
                    !.pc = IF left = 0 THEN AfterItems(r.loc.orderType) ELSE "oc_item",
                    !.loc = [@ EXCEPT !.remaining = left,
                                      !.subtotal = @ + line.totalPrice,
                                      !.processedItems = Append(@, line)]])
    /\ UNCHANGED store

\* create: DELIVERY only, restaurantConfig.findFirst and the delivery rules
OrderCreateConfig(p) ==
    /\ req[p].pc = "oc_config"
    /\ \E config \in FindFirstActive :
         LET r == req[p]
             d == DeliveryFee(r.loc.orderType, r.loc.subtotal, config)
         IN IF d.code # "next"
            THEN Fail(p, [r EXCEPT !.loc = [@ EXCEPT !.config = config]], d.code)
            ELSE Continue(p, [r EXCEPT !.pc = "oc_customer",
                     !.loc = [@ EXCEPT !.config = config, !.deliveryFee = d.fee]])
    /\ UNCHANGED store

\* create: customer.findUnique by phone
OrderCreateFindCustomer(p) ==
    /\ req[p].pc = "oc_customer"
    /\ LET r == req[p]
           c == FindCustomerByPhone(r.loc.phone)
           upd == IF c = 0 THEN None
                  ELSE Some(CustomerBackfill(customers[c], r.loc.name, r.loc.email))
           next == IF c = 0 THEN "oc_customer_create"
                   ELSE IF The(upd) # [name |-> Null, email |-> Null]
                   THEN "oc_customer_update"
                   ELSE "oc_insert"
       IN Continue(p, [r EXCEPT !.pc = next,
                                !.loc = [@ EXCEPT !.customer = c, !.update = upd]])
    /\ UNCHANGED store

\* create: customer.create; phone is a unique key of Customer
OrderCreateCustomerCreate(p) ==
    /\ req[p].pc = "oc_customer_create"
    /\ LET r == req[p] IN
       IF FindCustomerByPhone(r.loc.phone) # 0
       THEN /\ Fail(p, r, "INTERNAL_SERVER_ERROR")
            /\ UNCHANGED customers
       ELSE /\ customers' = Append(customers,
                   [phone |-> r.loc.phone, name |-> r.loc.name, email |-> r.loc.email,
                    addresses |-> IF r.loc.hasAddress THEN 1 ELSE 0])
            /\ Continue(p, [r EXCEPT !.pc = "oc_insert",
                          !.wrote = @ \cup {"customer"},
                          !.loc = [@ EXCEPT !.customer = Len(customers) + 1]])
    /\ UNCHANGED <<staff, users, configs, categories, menu, orders, orderItems, reservations>>

\* customer.update({ data: updateData }): only the fields of updateData are written
CustomerUpdate(row, updateData) ==
    [row EXCEPT !.name = IF updateData.name = Null THEN @ ELSE updateData.name,
                !.email = IF updateData.email = Null THEN @ ELSE updateData.email]

\* create: customer.update with the updateData computed from the row read
OrderCreateCustomerUpdate(p) ==
    /\ req[p].pc = "oc_customer_update"
    /\ LET r == req[p]
           c == r.loc.customer
           upd == The(r.loc.update)
       IN /\ customers' = [customers EXCEPT ![c] = CustomerUpdate(@, upd)]
          /\ Continue(p, [r EXCEPT !.pc = "oc_insert", !.wrote = @ \cup {"customer"}])
    /\ UNCHANGED <<staff, users, configs, categories, menu, orders, orderItems, reservations>>

OrderTotalsRate15(subtotal, deliveryFee) ==
    calculateOrderTotal(subtotal, 15, deliveryFee, 0, 0)

\* dbUtils.calculateOrderTotal(subtotal, 0.16, deliveryFee, 0, 0)
OrderTotals(subtotal, deliveryFee) ==
    calculateOrderTotal(subtotal, TaxRatePercent, deliveryFee, 0, 0)

\* orderItems: { create: processedItems }: the OrderItem rows of the new order
OrderItemRowsWithoutLast(orderId, processedItems) ==
    [k \in 1..(Len(processedItems) - 1) |->
        processedItems[k] @@ [orderId |-> orderId]]

OrderItemRows(orderId, processedItems) ==
    [k \in 1..Len(processedItems) |-> processedItems[k] @@ [orderId |-> orderId]]

\* create: order.create with its nested orderItems.create, one write: the
\* Order row and its OrderItem rows are stored together
OrderCreateInsert(p) ==
    /\ req[p].pc = "oc_insert"
    /\ LET r == req[p]
           totals == OrderTotals(r.loc.subtotal, r.loc.deliveryFee)
           row == [orderNumber |-> generateOrderNumber(orders),
                   customerId |-> r.loc.customer, orderType |-> r.loc.orderType,
                   subtotal |-> totals.subtotal, taxAmount |-> totals.taxAmount,
                   deliveryFee |-> totals.deliveryFee, total |-> totals.total,
                   customerPhone |-> r.loc.phone] @@ OrderDefaults
       IN /\ orders' = Append(orders, row)
          /\ orderItems' = orderItems \o OrderItemRows(Len(orders) + 1, r.loc.processedItems)
          /\ Done(p, [r EXCEPT !.wrote = @ \cup {"order", "orderItem"}], "OK",
                  Len(orders) + 1)
    /\ UNCHANGED <<staff, users, configs, categories, menu, customers, reservations>>

\* create: the nested write is rejected by the database; neither row is stored
OrderCreateInsertFails(p) ==
    /\ req[p].pc = "oc_insert"
    /\ Fail(p, req[p], "INTERNAL_SERVER_ERROR")
    /\ UNCHANGED store

-----------------------------------------------------------------------------
(* Order workflow: status and payment *)

\* updateStatus refusing to move an order out of COMPLETED or CANCELLED
StatusUpdateKeepsTerminal(row, status, estimatedReadyTime, now) ==
    IF row.status \in {"COMPLETED", "CANCELLED"} THEN row
    ELSE [row EXCEPT !.status = status,
                     !.readyAt = IF status = "READY" THEN now ELSE @,
                     !.deliveredAt = IF status = "DELIVERED" THEN now ELSE @,
                     !.estimatedReadyTime =
                         IF estimatedReadyTime # Null THEN estimatedReadyTime ELSE @]

\* updateStatus clearing the stamps of the states the order leaves
StatusUpdateClearsStamps(row, status, estimatedReadyTime, now) ==
    [row EXCEPT !.status = status,
                !.readyAt = IF status = "READY" THEN now
                            ELSE IF status \in {"PENDING", "CONFIRMED", "PREPARING"}
                            THEN Null ELSE @,
                !.deliveredAt = IF status = "DELIVERED" THEN now
                                ELSE IF status \in {"COMPLETED", "CANCELLED"} THEN @
                                ELSE Null,
                !.estimatedReadyTime =
                    IF estimatedReadyTime # Null THEN estimatedReadyTime ELSE @]

\* the data of updateStatus: the status, and the stamp its target asks for
\* (now: the value of new Date() in this call)
StatusUpdate(row, status, estimatedReadyTime, now) ==
    [row EXCEPT !.status = status,
                !.readyAt = IF status = "READY" THEN now ELSE @,
                !.deliveredAt = IF status = "DELIVERED" THEN now ELSE @,
                !.estimatedReadyTime =
                    IF estimatedReadyTime # Null THEN estimatedReadyTime ELSE @]

\* updateStatus: one order.update; a missing row makes the update throw
OrderUpdateStatus(p, id, status, estimatedReadyTime, now) ==
    /\ req[p].pc = "ctx" /\ req[p].proc = "order.updateStatus"
    /\ LET g == Gate("staff", req[p].user)
           r == [req[p] EXCEPT !.ran = TRUE,
                    !.loc = [id |-> id, status |-> status, now |-> now]]
       IN IF g # "next"
          THEN /\ Fail(p, req[p], g)
               /\ UNCHANGED orders
          ELSE IF id \notin DOMAIN orders
          THEN /\ Fail(p, r, "INTERNAL_SERVER_ERROR")
               /\ UNCHANGED orders
          ELSE /\ orders' = [orders EXCEPT ![id] =
                     StatusUpdate(@, status, estimatedReadyTime, now)]
               /\ Done(p, [r EXCEPT !.wrote = {"order"}], "OK", id)
    /\ UNCHANGED <<staff, users, configs, categories, menu, customers, orderItems, reservations>>

\* confirmPayment adding the tip to the stored total instead of recomputing it
PaymentUpdateAddsTip(row, paymentReference, tip, read) ==
    LET paid == [row EXCEPT !.paymentStatus = "PAID",
                            !.paymentReference =
                                IF paymentReference # Null THEN paymentReference ELSE @]
    IN IF read = None THEN paid
       ELSE [paid EXCEPT !.tipAmount = The(tip), !.total = row.total + The(tip)]

PaymentUpdateClearsTip(row, paymentReference, tip, read) ==
    LET paid == [row EXCEPT !.paymentStatus = "PAID",
                            !.paymentReference =
                                IF paymentReference # Null THEN paymentReference ELSE @]
    IN IF read = None
       THEN [paid EXCEPT !.tipAmount = 0, !.total = row.total - row.tipAmount]
       ELSE [paid EXCEPT !.tipAmount = The(tip),
                         !.total = The(read).subtotal + The(read).taxAmount
                                   + The(read).deliveryFee + The(tip)
                                   - The(read).discountAmount]

\* the data of confirmPayment, from the tip and the totals it read (None: none read)
PaymentUpdate(row, paymentReference, tip, read) ==
    LET paid == [row EXCEPT !.paymentStatus = "PAID",
                            !.paymentReference =
                                IF paymentReference # Null THEN paymentReference ELSE @]
    IN IF read = None THEN paid
       ELSE [paid EXCEPT !.tipAmount = The(tip),
                         !.total = The(read).subtotal + The(read).taxAmount
                                   + The(read).deliveryFee + The(tip)
                                   - The(read).discountAmount]

\* order.findUnique selecting the four stored amounts
ReadTotals(id) ==
    IF id \in DOMAIN orders
    THEN Some([subtotal |-> orders[id].subtotal, taxAmount |-> orders[id].taxAmount,
               deliveryFee |-> orders[id].deliveryFee,
               discountAmount |-> orders[id].discountAmount])
    ELSE None

\* confirmPayment: the final order.update
PaymentWrite(p, r, id, paymentReference, tip, read) ==
    IF id \notin DOMAIN orders
    THEN /\ Fail(p, r, "INTERNAL_SERVER_ERROR")
         /\ UNCHANGED orders
    ELSE /\ orders' = [orders EXCEPT ![id] = PaymentUpdate(@, paymentReference, tip, read)]
         /\ Done(p, [r EXCEPT !.wrote = {"order"}], "OK", id)

\* confirmPayment: the gate; with a tip > 0 the stored amounts are read first,
\* without one the handler goes straight to its update
OrderConfirmPayment(p, id, paymentReference, tip) ==
    /\ req[p].pc = "ctx" /\ req[p].proc = "order.confirmPayment"
    /\ LET r == req[p]
           g == Gate("staff", r.user)
       IN IF g # "next"
          THEN /\ Fail(p, r, g)
               /\ UNCHANGED orders
          ELSE IF tip # None /\ The(tip) # 0 /\ The(tip) > 0
          THEN /\ Continue(p, [r EXCEPT !.pc = "cp_update", !.ran = TRUE,
                     !.loc = [id |-> id, paymentReference |-> paymentReference,
                              tip |-> tip, read |-> ReadTotals(id)]])
               /\ UNCHANGED orders
          ELSE PaymentWrite(p, [r EXCEPT !.ran = TRUE,
                                   !.loc = [id |-> id, paymentReference |-> paymentReference,
                                            tip |-> tip, read |-> None]],
                            id, paymentReference, tip, None)
    /\ UNCHANGED <<staff, users, configs, categories, menu, customers, orderItems, reservations>>

\* confirmPayment: the order.update that follows the read
OrderConfirmPaymentUpdate(p) ==
    /\ req[p].pc = "cp_update"
    /\ LET r == req[p]
       IN PaymentWrite(p, r, r.loc.id, r.loc.paymentReference, r.loc.tip, r.loc.read)
    /\ UNCHANGED <<staff, users, configs, categories, menu, customers, orderItems, reservations>>

-----------------------------------------------------------------------------
(* Time strings: "HH:MM" as the sequence of its characters *)

DigitChars == <<"0", "1", "2", "3", "4", "5", "6", "7", "8", "9">>

DigitValue(c) == (CHOOSE i \in DOMAIN DigitChars : DigitChars[i] = c) - 1

\* Number(s) of a string of decimal digits ("" is 0)
RECURSIVE Number(_)
Number(s) ==
    IF s = <<>> THEN 0
    ELSE 10 * Number(SubSeq(s, 1, Len(s) - 1)) + DigitValue(s[Len(s)])

\* s.split(':')
RECURSIVE SplitColon(_)
SplitColon(s) ==
    IF \A i \in DOMAIN s : s[i] # ":"
    THEN <<s>>
    ELSE LET k == CHOOSE i \in DOMAIN s : s[i] = ":" /\ \A j \in 1..(i - 1) : s[j] # ":"
         IN <<SubSeq(s, 1, k - 1)>> \o SplitColon(SubSeq(s, k + 1, Len(s)))

\* const [h, m] = s.split(':').map(Number); h * 60 + m
ToMinutes(s) == LET parts == SplitColon(s) IN Number(parts[1]) * 60 + Number(parts[2])

\* n.toString() for 0 <= n
RECURSIVE NumToString(_)
NumToString(n) ==
    IF n < 10 THEN <<DigitChars[n + 1]>>
    ELSE NumToString(n \div 10) \o <<DigitChars[(n % 10) + 1]>>

\* n.toString().padStart(2, '0')
PadStart2(n) == IF Len(NumToString(n)) < 2 THEN <<"0">> \o NumToString(n) ELSE NumToString(n)

\* the slot label of a minute of the day
TimeString(minutes) == PadStart2(minutes \div 60) \o <<":">> \o PadStart2(minutes % 60)

\* s.slice(0, 5)
Slice5(s) == SubSeq(s, 1, IF Len(s) < 5 THEN Len(s) ELSE 5)

DayNames ==
    <<"sunday", "monday", "tuesday", "wednesday", "thursday", "friday", "saturday">>

\* dayNames[new Date(date).getDay()]: dates are day numbers, day 0 a Sunday
DayOfWeek(date) == DayNames[(date % 7) + 1]

ReservationLeadMinutes == 120
SlotMinutes == 30
SlotCapacity == 3

-----------------------------------------------------------------------------
(* Reservation workflow: create *)

\* !daySchedule || daySchedule.is_closed
DayClosedNever(openingHours, day) == FALSE

DayClosed(openingHours, day) ==
    day \notin DOMAIN openingHours \/ openingHours[day].is_closed

\* the time is before opening or less than two hours before closing
OutsideWindowAtClose(reservationMinutes, openMinutesTotal, closeMinutesTotal) ==
    reservationMinutes < openMinutesTotal
        \/ reservationMinutes >= closeMinutesTotal - ReservationLeadMinutes

OutsideWindow(reservationMinutes, openMinutesTotal, closeMinutesTotal) ==
    reservationMinutes < openMinutesTotal
        \/ reservationMinutes > closeMinutesTotal - ReservationLeadMinutes

\* the checks of create with a capacity check on the slot added
ReservationChecksWithCapacity(config, date, time) ==
    IF config = None THEN "NOT_FOUND"
    ELSE IF ~The(config).services.reservations THEN "FORBIDDEN"
    ELSE IF DayClosed(The(config).openingHours, DayOfWeek(date)) THEN "BAD_REQUEST"
    ELSE LET daySchedule == The(config).openingHours[DayOfWeek(date)] IN
         IF OutsideWindow(ToMinutes(time), ToMinutes(daySchedule.open),
                          ToMinutes(daySchedule.close))
         THEN "BAD_REQUEST"
         ELSE IF Cardinality({i \in DOMAIN reservations :
                                 /\ reservations[i].reservationDate = date
                                 /\ Slice5(reservations[i].reservationTime) = time
                                 /\ reservations[i].status # "CANCELLED"}) >= SlotCapacity
         THEN "CONFLICT"
         ELSE "next"

\* the checks of create on the config read: the code to fail with, or "next"
ReservationChecks(config, date, time) ==
    IF config = None THEN "NOT_FOUND"
    ELSE IF ~The(config).services.reservations THEN "FORBIDDEN"
    ELSE IF DayClosed(The(config).openingHours, DayOfWeek(date)) THEN "BAD_REQUEST"
    ELSE LET daySchedule == The(config).openingHours[DayOfWeek(date)] IN
         IF OutsideWindow(ToMinutes(time), ToMinutes(daySchedule.open),
                          ToMinutes(daySchedule.close))
         THEN "BAD_REQUEST"
         ELSE "next"

\* room for one more reservation under the cap
ReservationRoom(cap) ==
    Len(reservations) + Cardinality(Running("reservation.create")) < cap

\* create: restaurantConfig.findFirst, then the service, day and time-window checks
ReservationCreateStart(p, phone, name, date, time) ==
    /\ req[p].pc = "ctx" /\ req[p].proc = "reservation.create"
    /\ Gate("public", req[p].user) = "next"
    /\ \E config \in FindFirstActive :
         LET r == [req[p] EXCEPT !.ran = TRUE,
                      !.loc = [phone |-> phone, name |-> name, date |-> date,
                               time |-> time, config |-> config, customer |-> 0]]
             code == ReservationChecks(config, date, time)
         IN IF code # "next" THEN Fail(p, r, code)
            ELSE Continue(p, [r EXCEPT !.pc = "rc_customer"])
    /\ UNCHANGED store

\* create: customer.findUnique by phone
ReservationCreateFindCustomer(p) ==
    /\ req[p].pc = "rc_customer"
    /\ LET r == req[p]
           c == FindCustomerByPhone(r.loc.phone)
       IN Continue(p, [r EXCEPT !.pc = IF c = 0 THEN "rc_customer_create" ELSE "rc_insert",
                                !.loc = [@ EXCEPT !.customer = c]])
    /\ UNCHANGED store

\* create: customer.create; phone is a unique key of Customer
ReservationCreateCustomerCreate(p) ==
    /\ req[p].pc = "rc_customer_create"
    /\ LET r == req[p] IN
       IF FindCustomerByPhone(r.loc.phone) # 0
       THEN /\ Fail(p, r, "INTERNAL_SERVER_ERROR")
            /\ UNCHANGED customers
       ELSE /\ customers' = Append(customers,
                   [phone |-> r.loc.phone, name |-> r.loc.name, email |-> Null,
                    addresses |-> 0])
            /\ Continue(p, [r EXCEPT !.pc = "rc_insert", !.wrote = @ \cup {"customer"},
                                     !.loc = [@ EXCEPT !.customer = Len(customers) + 1]])
    /\ UNCHANGED <<staff, users, configs, categories, menu, orders, orderItems, reservations>>

\* create: reservation.create; the time is stored with seconds appended
ReservationCreateInsert(p) ==
    /\ req[p].pc = "rc_insert"
    /\ LET r == req[p]
           row == [customerId |-> r.loc.customer, customerName |-> r.loc.name,
                   customerPhone |-> r.loc.phone, reservationDate |-> r.loc.date,
                   reservationTime |-> r.loc.time \o <<":", "0", "0">>,
                   status |-> "PENDING"]
       IN /\ reservations' = Append(reservations, row)
          /\ Done(p, [r EXCEPT !.wrote = @ \cup {"reservation"}], "OK",
                  Len(reservations) + 1)
    /\ UNCHANGED <<staff, users, configs, categories, menu, customers, orders, orderItems>>

\* create: reservation.create is rejected by the database; no row is stored
ReservationCreateInsertFails(p) ==
    /\ req[p].pc = "rc_insert"
    /\ Fail(p, req[p], "INTERNAL_SERVER_ERROR")
    /\ UNCHANGED store

-----------------------------------------------------------------------------
(* Reservation workflow: availability *)

\* slot labels that go on for one slot after last
RECURSIVE SlotsPastLead(_, _)
SlotsPastLead(cur, last) ==
    IF cur > last + SlotMinutes THEN <<>>
    ELSE <<TimeString(cur)>> \o SlotsPastLead(cur + SlotMinutes, last)

\* the slot labels from cur to last, one every SlotMinutes
RECURSIVE Slots(_, _)
Slots(cur, last) ==
    IF cur > last THEN <<>>
    ELSE <<TimeString(cur)>> \o Slots(cur + SlotMinutes, last)

\* findMany: the reservations of the date that hold a table
ExistingReservations(date) ==
    {i \in DOMAIN reservations :
        /\ reservations[i].reservationDate = date
        /\ reservations[i].status \in {"PENDING", "CONFIRMED", "SEATED"}}

\* reservationCounts[time] || 0: rows keyed by the first five characters of the stored time
ReservationCount(existing, time) ==
    Cardinality({i \in existing : Slice5(reservations[i].reservationTime) = time})

\* slots.filter(time => (reservationCounts[time] || 0) < 3)
AvailableTimes(slots, existing) ==
    LET free(time) == ReservationCount(existing, time) < SlotCapacity
    IN SelectSeq(slots, free)

\* getAvailableTimes: restaurantConfig.findFirst, the early empty answers, the slots
ReservationGetAvailableTimes(p, date) ==
    /\ req[p].pc = "ctx" /\ req[p].proc = "reservation.getAvailableTimes"
    /\ Gate("public", req[p].user) = "next"
    /\ \E config \in FindFirstActive :
         LET r == [req[p] EXCEPT !.ran = TRUE,
                      !.loc = [date |-> date, config |-> config, slots |-> <<>>]]
         IN IF config = None THEN Done(p, r, "OK", <<>>)
            ELSE IF ~The(config).services.reservations THEN Done(p, r, "OK", <<>>)
            ELSE IF DayClosed(The(config).openingHours, DayOfWeek(date))
            THEN Done(p, r, "OK", <<>>)
            ELSE LET daySchedule == The(config).openingHours[DayOfWeek(date)]
                     currentMinutes == ToMinutes(daySchedule.open)
                     closeMinutesTotal ==
                         ToMinutes(daySchedule.close) - ReservationLeadMinutes
                 IN Continue(p, [r EXCEPT !.pc = "gat_read",
                        !.loc = [@ EXCEPT !.slots =
                                    Slots(currentMinutes, closeMinutesTotal)]])
    /\ UNCHANGED store

\* getAvailableTimes: reservation.findMany, then the slots under capacity
ReservationGetAvailableTimesRead(p) ==
    /\ req[p].pc = "gat_read"
    /\ LET r == req[p]
           existingReservations == ExistingReservations(r.loc.date)
       IN Done(p, r, "OK", AvailableTimes(r.loc.slots, existingReservations))
    /\ UNCHANGED store

-----------------------------------------------------------------------------
(* Reservation workflow: status changes *)

\* reservation.update with the data given; a missing row makes update throw
ReservationWrite(p, r, id, status) ==
    IF id \notin DOMAIN reservations
    THEN Fail(p, r, "INTERNAL_SERVER_ERROR") /\ UNCHANGED reservations
    ELSE /\ reservations' = [reservations EXCEPT ![id].status =
                                IF status = Null THEN @ ELSE status]
         /\ Done(p, [r EXCEPT !.wrote = @ \cup {"reservation"}], "OK", id)

\* a staff procedure that writes one status: the gate, then the update
ReservationStaffWrite(p, proc, id, status) ==
    /\ req[p].pc = "ctx" /\ req[p].proc = proc
    /\ LET gate == Gate("staff", req[p].user)
       IN IF gate # "next"
          THEN Fail(p, req[p], gate) /\ UNCHANGED reservations
          ELSE ReservationWrite(p, [req[p] EXCEPT !.ran = TRUE,
                                       !.loc = [id |-> id, status |-> status]], id, status)
    /\ UNCHANGED <<staff, users, configs, categories, menu, customers, orders, orderItems>>

\* update (staff): the status of the input, when present, is written as given
ReservationUpdate(p, id, status) == ReservationStaffWrite(p, "reservation.update", id, status)

\* confirm (staff)
ReservationConfirm(p, id) == ReservationStaffWrite(p, "reservation.confirm", id, "CONFIRMED")

\* markSeated (staff)
ReservationMarkSeated(p, id) == ReservationStaffWrite(p, "reservation.markSeated", id, "SEATED")

\* a phone that is a non-empty string
Truthy(phone) == phone \notin {Null, ""}

\* cancel (public): without a user and with a phone, the reservation is read
\* and its phone compared; in every other case the update is made at once
ReservationCancel(p, id, phone) ==
    /\ req[p].pc = "ctx" /\ req[p].proc = "reservation.cancel"
    /\ Gate("public", req[p].user) = "next"
    /\ LET r == [req[p] EXCEPT !.ran = TRUE, !.loc = [id |-> id, phone |-> phone]]
       IN IF req[p].user = NoUser /\ Truthy(phone)
          THEN /\ IF id \notin DOMAIN reservations
                     \/ reservations[id].customerPhone # phone
                  THEN Fail(p, r, "FORBIDDEN")
                  ELSE Continue(p, [r EXCEPT !.pc = "cancel_update"])
               /\ UNCHANGED reservations
          ELSE ReservationWrite(p, r, id, "CANCELLED")
    /\ UNCHANGED <<staff, users, configs, categories, menu, customers, orders, orderItems>>

\* cancel: reservation.update after the phone check
ReservationCancelUpdate(p) ==
    /\ req[p].pc = "cancel_update"
    /\ ReservationWrite(p, req[p], req[p].loc.id, "CANCELLED")
    /\ UNCHANGED <<staff, users, configs, categories, menu, customers, orders, orderItems>>

-----------------------------------------------------------------------------
(* Staff administration, kitchen view, menu availability *)

\* the fields of updateStaff's input that are present replace the row's
StaffUpdate(row, role, isActive) ==
    [row EXCEPT !.role = IF role = Null THEN @ ELSE role,
                !.isActive = IF isActive = None THEN @ ELSE The(isActive)]

\* auth.updateStaff (admin only): staffUser.update; a missing row makes update throw
AuthUpdateStaff(p, id, role, isActive) ==
    /\ req[p].pc = "ctx" /\ req[p].proc = "auth.updateStaff"
    /\ LET gate == Gate("admin", req[p].user)
           r == [req[p] EXCEPT !.ran = TRUE]
       IN IF gate # "next"
          THEN Fail(p, req[p], gate) /\ UNCHANGED staff
          ELSE IF id \notin DOMAIN staff
          THEN Fail(p, r, "INTERNAL_SERVER_ERROR") /\ UNCHANGED staff
          ELSE /\ staff' = [staff EXCEPT ![id] = StaffUpdate(@, role, isActive)]
               /\ Done(p, [r EXCEPT !.wrote = {"staffUser"}], "OK", 0)
    /\ UNCHANGED <<users, configs, categories, menu, customers, orders, orderItems, reservations>>

\* auth.deactivateStaff (admin only): staffUser.update isActive false
AuthDeactivateStaff(p, id) ==
    /\ req[p].pc = "ctx" /\ req[p].proc = "auth.deactivateStaff"
    /\ LET gate == Gate("admin", req[p].user)
           r == [req[p] EXCEPT !.ran = TRUE]
       IN IF gate # "next"
          THEN Fail(p, req[p], gate) /\ UNCHANGED staff
          ELSE IF id \notin DOMAIN staff
          THEN Fail(p, r, "INTERNAL_SERVER_ERROR") /\ UNCHANGED staff
          ELSE /\ staff' = [staff EXCEPT ![id].isActive = FALSE]
               /\ Done(p, [r EXCEPT !.wrote = {"staffUser"}], "OK", 0)
    /\ UNCHANGED <<users, configs, categories, menu, customers, orders, orderItems, reservations>>

\* the ids of the orders the kitchen view lists
KitchenOrders == {i \in DOMAIN orders : orders[i].status \in {"CONFIRMED", "PREPARING"}}

\* order.getKitchenOrders (admin, kitchen): order.findMany
OrderGetKitchenOrders(p) ==
    /\ req[p].pc = "ctx" /\ req[p].proc = "order.getKitchenOrders"
    /\ LET gate == Gate("kitchen", req[p].user)
       IN IF gate # "next"
          THEN Fail(p, req[p], gate)
          ELSE Done(p, [req[p] EXCEPT !.ran = TRUE], "OK", KitchenOrders)
    /\ UNCHANGED store

FlipAvailability(row, isAvailable) == [row EXCEPT !.isAvailable = ~@]

\* data: { isAvailable: input.isAvailable }
SetAvailability(row, isAvailable) == [row EXCEPT !.isAvailable = isAvailable]

\* the OrderItem rows of an order, in table order
ItemsOf(orderId) ==
    LET ofOrder(row) == row.orderId = orderId IN SelectSeq(orderItems, ofOrder)

\* the orders the staff view lists
ActiveOrders ==
    {i \in DOMAIN orders :
        orders[i].status \in {"PENDING", "CONFIRMED", "PREPARING", "READY",
                              "OUT_FOR_DELIVERY"}}

\* order.getActiveOrders (any staff role): order.findMany with the orderItems included
OrderGetActiveOrders(p) ==
    /\ req[p].pc = "ctx" /\ req[p].proc = "order.getActiveOrders"
    /\ LET gate == Gate("staff", req[p].user)
       IN IF gate # "next"
          THEN Fail(p, req[p], gate)
          ELSE Done(p, [req[p] EXCEPT !.ran = TRUE], "OK",
                    {[id |-> i, orderItems |-> ItemsOf(i)] : i \in ActiveOrders})
    /\ UNCHANGED store

\* menu.toggleAvailability (any staff role): menuItem.update isAvailable
MenuToggleAvailability(p, id, isAvailable) ==
    /\ req[p].pc = "ctx" /\ req[p].proc = "menu.toggleAvailability"
    /\ LET gate == Gate("staff", req[p].user)
           r == [req[p] EXCEPT !.ran = TRUE,
                    !.loc = [id |-> id, isAvailable |-> isAvailable]]
       IN IF gate # "next"
          THEN Fail(p, req[p], gate) /\ UNCHANGED menu
          ELSE IF id \notin DOMAIN menu
          THEN Fail(p, r, "INTERNAL_SERVER_ERROR") /\ UNCHANGED menu
          ELSE /\ menu' = [menu EXCEPT ![id] = SetAvailability(@, isAvailable)]
               /\ Done(p, [r EXCEPT !.wrote = {"menuItem"}], "OK", 0)
    /\ UNCHANGED <<staff, users, configs, categories, customers, orders, orderItems, reservations>>

-----------------------------------------------------------------------------
(* Menu administration: items and modifiers *)

\* a menu write that also reprices the stored lines of the items it changed
MenuWriteReprices ==
    /\ orderItems' =
          [k \in DOMAIN orderItems |->
              IF orderItems[k].menuItemId \in DOMAIN menu'
              THEN [orderItems[k] EXCEPT
                      !.unitPrice = menu'[orderItems[k].menuItemId].price,
                      !.totalPrice = menu'[orderItems[k].menuItemId].price
                                     * orderItems[k].quantity]
              ELSE orderItems[k]]
    /\ UNCHANGED <<staff, users, configs, categories, customers, orders, reservations>>

\* menuItem.update / itemModifier.update / itemModifier.delete write rows of
\* their own table only
MenuWriteOnly == UNCHANGED <<staff, users, configs, categories, customers, orders, orderItems, reservations>>

\* the fields of updateItem's input that are present replace the row's
ItemUpdate(row, price, isAvailable) ==
    [row EXCEPT !.price = IF price = None THEN @ ELSE The(price),
                !.isAvailable = IF isAvailable = None THEN @ ELSE The(isAvailable)]

\* menu.updateItem (any staff role): menuItem.update; a missing row makes update throw
MenuUpdateItem(p, id, price, isAvailable) ==
    /\ req[p].pc = "ctx" /\ req[p].proc = "menu.updateItem"
    /\ LET gate == Gate("staff", req[p].user)
           r == [req[p] EXCEPT !.ran = TRUE,
                    !.loc = [id |-> id, price |-> price, isAvailable |-> isAvailable]]
       IN IF gate # "next"
          THEN Fail(p, req[p], gate) /\ UNCHANGED menu
          ELSE IF id \notin DOMAIN menu
          THEN Fail(p, r, "INTERNAL_SERVER_ERROR") /\ UNCHANGED menu
          ELSE /\ menu' = [menu EXCEPT ![id] = ItemUpdate(@, price, isAvailable)]
               /\ Done(p, [r EXCEPT !.wrote = {"menuItem"}], "OK", 0)
    /\ MenuWriteOnly

\* the menu items that carry the modifier of an id (modifier ids are unique)
ModifierOwners(id) == {i \in DOMAIN menu : id \in DOMAIN menu[i].modifiers}

\* menu.updateModifier (any staff role): itemModifier.update of the price adjustment
MenuUpdateModifier(p, id, priceAdjustment) ==
    /\ req[p].pc = "ctx" /\ req[p].proc = "menu.updateModifier"
    /\ LET gate == Gate("staff", req[p].user)
           r == [req[p] EXCEPT !.ran = TRUE,
                    !.loc = [id |-> id, priceAdjustment |-> priceAdjustment]]
       IN IF gate # "next"
          THEN Fail(p, req[p], gate) /\ UNCHANGED menu
          ELSE IF ModifierOwners(id) = {}
          THEN Fail(p, r, "INTERNAL_SERVER_ERROR") /\ UNCHANGED menu
          ELSE /\ menu' = [i \in DOMAIN menu |->
                             IF i \in ModifierOwners(id)
                             THEN [menu[i] EXCEPT !.modifiers[id] = priceAdjustment]
                             ELSE menu[i]]
               /\ Done(p, [r EXCEPT !.wrote = {"itemModifier"}], "OK", 0)
    /\ MenuWriteOnly

\* menu.deleteModifier (any staff role): itemModifier.delete; a missing row makes it throw
MenuDeleteModifier(p, id) ==
    /\ req[p].pc = "ctx" /\ req[p].proc = "menu.deleteModifier"
    /\ LET gate == Gate("staff", req[p].user)
           r == [req[p] EXCEPT !.ran = TRUE, !.loc = [id |-> id]]
       IN IF gate # "next"
          THEN Fail(p, req[p], gate) /\ UNCHANGED menu
          ELSE IF ModifierOwners(id) = {}
          THEN Fail(p, r, "INTERNAL_SERVER_ERROR") /\ UNCHANGED menu
          ELSE /\ menu' = [i \in DOMAIN menu |->
                             [menu[i] EXCEPT !.modifiers =
                                 [m \in DOMAIN menu[i].modifiers \ {id} |->
                                     menu[i].modifiers[m]]]]
               /\ Done(p, [r EXCEPT !.wrote = {"itemModifier"}], "OK", 0)
    /\ MenuWriteOnly

\* a count of the category's items that ignores their availability
ItemCountAnyItem(categoryId) ==
    Cardinality({i \in DOMAIN menu : menu[i].categoryId = categoryId})

\* menuItem.count({ where: { categoryId, isAvailable: true } })
ItemCount(categoryId) ==
    Cardinality({i \in DOMAIN menu :
                    menu[i].categoryId = categoryId /\ menu[i].isAvailable})

\* menu.deleteCategory (any staff role): the count of available items, and
\* PRECONDITION_FAILED when there is one
MenuDeleteCategory(p, id) ==
    /\ req[p].pc = "ctx" /\ req[p].proc = "menu.deleteCategory"
    /\ LET gate == Gate("staff", req[p].user)
           itemCount == ItemCount(id)
           r == [req[p] EXCEPT !.ran = TRUE, !.loc = [id |-> id]]
       IN IF gate # "next" THEN Fail(p, req[p], gate)
          ELSE IF itemCount > 0 THEN Fail(p, r, "PRECONDITION_FAILED")
          ELSE Continue(p, [r EXCEPT !.pc = "dc_update"])
    /\ UNCHANGED store

\* menu.deleteCategory: menuCategory.update isActive false; a missing row makes
\* update throw
MenuDeleteCategoryUpdate(p) ==
    /\ req[p].pc = "dc_update"
    /\ LET r == req[p] IN
       IF r.loc.id \notin DOMAIN categories
       THEN Fail(p, r, "INTERNAL_SERVER_ERROR") /\ UNCHANGED categories
       ELSE /\ categories' = [categories EXCEPT ![r.loc.id].isActive = FALSE]
            /\ Done(p, [r EXCEPT !.wrote = {"menuCategory"}], "OK", 0)
    /\ UNCHANGED <<staff, users, configs, menu, customers, orders, orderItems, reservations>>

-----------------------------------------------------------------------------
(* Registration *)

\* role: z.string().default('CUSTOMER'): the role of the input, whatever
\* string it is, and CUSTOMER when the input has none
RegisterRole(role) == IF role = Null THEN "CUSTOMER" ELSE role

\* user.findUnique({ where: { email } })
FindUserByEmail(email) == {i \in DOMAIN users : users[i].email = email}

\* the id of the next User row
NewUserId == <<"user-1", "user-2", "user-3", "user-4">>[Len(users) + 1]

\* jwt.sign({ userId, email, role }, secret, { expiresIn: '7d' })
SignToken(user) == [kind |-> "valid", userId |-> user.id, role |-> user.role]

\* room for one more user under the cap
UserRoom(cap) == Len(users) + Cardinality(Running("auth.register")) < cap

\* auth.register (public): user.findUnique by email, CONFLICT when it is taken
AuthRegister(p, email, role) ==
    /\ req[p].pc = "ctx" /\ req[p].proc = "auth.register"
    /\ Gate("public", req[p].user) = "next"
    /\ LET r == [req[p] EXCEPT !.ran = TRUE,
                    !.loc = [email |-> email, role |-> RegisterRole(role)]]
       IN IF FindUserByEmail(email) # {} THEN Fail(p, r, "CONFLICT")
          ELSE Continue(p, [r EXCEPT !.pc = "reg_insert"])
    /\ UNCHANGED store

\* auth.register: user.create with the data of the input (email is a unique
\* key of User), then the token signed for the new row
AuthRegisterInsert(p) ==
    /\ req[p].pc = "reg_insert"
    /\ LET r == req[p]
           newUser == [id |-> NewUserId, email |-> r.loc.email, role |-> r.loc.role]
       IN IF FindUserByEmail(r.loc.email) # {}
          THEN Fail(p, r, "INTERNAL_SERVER_ERROR") /\ UNCHANGED users
          ELSE /\ users' = Append(users, newUser)
               /\ Done(p, [r EXCEPT !.wrote = {"user"}], "OK",
                       [token |-> SignToken(newUser), user |-> newUser])
    /\ UNCHANGED <<staff, configs, categories, menu, customers, orders, orderItems, reservations>>

-----------------------------------------------------------------------------
(* Client store: the cart and the session kept in the browser *)

\* a quantity is a JavaScript number: it is counted in units of 1/Scale, so
\* Scale stands for the quantity 1 and 1 for the fraction 1/Scale
Scale == 2

\* the call that returned in the step just taken; ok: it did not throw
NoCall == [op |-> "none", id |-> Null, quantity |-> 0, ok |-> TRUE]

Called(op, id, quantity, ok) == [op |-> op, id |-> id, quantity |-> quantity, ok |-> ok]

InitialClient ==
    [cartItems |-> <<>>, isAuthenticated |-> FALSE, user |-> None,
     authToken |-> FALSE, signOuts |-> 0, ret |-> NoCall]

\* cartItems.find(cartItem => cartItem.id === item.id)
InCart(cartItems, id) == \E k \in DOMAIN cartItems : cartItems[k].id = id

\* name and imageUrl of a cart item are carried along and left out
addToCart(cartItems, item) ==
    IF InCart(cartItems, item.id)
    THEN [k \in DOMAIN cartItems |->
             IF cartItems[k].id = item.id
             THEN [cartItems[k] EXCEPT !.quantity = @ + Scale]
             ELSE cartItems[k]]
    ELSE Append(cartItems, [id |-> item.id, price |-> item.price, quantity |-> Scale])

removeFromCart(cartItems, id) == SelectSeq(cartItems, LAMBDA item : item.id # id)

updateQuantity(cartItems, id, quantity) ==
    IF quantity <= 0
    THEN SelectSeq(cartItems, LAMBDA item : item.id # id)
    ELSE [k \in DOMAIN cartItems |->
             IF cartItems[k].id = id
             THEN [cartItems[k] EXCEPT !.quantity = quantity]
             ELSE cartItems[k]]

\* reduce((total, item) => total + item.price * item.quantity, 0): the price
\* is in centavos and the quantity in units of 1/Scale, and so is the total
RECURSIVE getCartTotal(_)
getCartTotal(cartItems) ==
    IF cartItems = <<>> THEN 0
    ELSE LET n == Len(cartItems)
         IN getCartTotal(SubSeq(cartItems, 1, n - 1))
               + cartItems[n].price * cartItems[n].quantity

\* a step of the browser: the server is not involved
ClientStep(c) ==
    /\ client' = c
    /\ UNCHANGED <<store, req, resp>>

\* cap: the quantity an addToCart may still raise
AddToCart(item, cap) ==
    /\ \A k \in DOMAIN client.cartItems :
          client.cartItems[k].id = item.id => client.cartItems[k].quantity < cap * Scale
    /\ ClientStep([client EXCEPT !.cartItems = addToCart(@, item),
                                 !.ret = Called("addToCart", item.id, 0, TRUE)])

RemoveFromCart(id) ==
    ClientStep([client EXCEPT !.cartItems = removeFromCart(@, id),
                              !.ret = Called("removeFromCart", id, 0, TRUE)])

UpdateQuantity(id, quantity) ==
    ClientStep([client EXCEPT !.cartItems = updateQuantity(@, id, quantity),
                              !.ret = Called("updateQuantity", id, quantity, TRUE)])

ClearCart ==
    ClientStep([client EXCEPT !.cartItems = <<>>,
                              !.ret = Called("clearCart", Null, 0, TRUE)])

\* onSuccess of the login and register mutations of the auth page: the token
\* goes to localStorage and login(user) to the store; the user has no role
AuthPageOnSuccess(id) ==
    ClientStep([client EXCEPT !.authToken = TRUE,
                              !.isAuthenticated = TRUE,
                              !.user = Some([id |-> id, role |-> Null]),
                              !.ret = Called("login", id, 0, TRUE)])

\* session: None, or the user of the session
SyncWithSession(session) ==
    ClientStep([client EXCEPT
        !.isAuthenticated = session # None,
        !.user = IF session # None
                 THEN Some([id |-> The(session).id,
                            role |-> IF The(session).role = Null THEN "CUSTOMER"
                                     ELSE The(session).role])
                 ELSE None,
        !.ret = Called("syncWithSession", Null, 0, TRUE)])

\* logout up to its await: the token leaves localStorage and signOut is
\* called; cap: the logout calls that may wait for signOut at once
Logout(cap) ==
    /\ client.signOuts < cap
    /\ ClientStep([client EXCEPT !.authToken = FALSE, !.signOuts = @ + 1, !.ret = NoCall])

\* signOut resolved: logout clears the store and returns
LogoutSignedOut ==
    /\ client.signOuts > 0
    /\ ClientStep([client EXCEPT !.isAuthenticated = FALSE, !.user = None,
                                 !.cartItems = <<>>, !.signOuts = @ - 1,
                                 !.ret = Called("logout", Null, 0, TRUE)])

\* signOut rejected: the await throws, and logout ends without the set
LogoutSignOutRejected ==
    /\ client.signOuts > 0
    /\ ClientStep([client EXCEPT !.signOuts = @ - 1,
                                 !.ret = Called("logout", Null, 0, FALSE)])

-----------------------------------------------------------------------------
(* Initial store: the seeded rows, and configurations an admin can set *)

\* the four seeded categories, all active
CategorySeed ==
    [c \in {"category-1", "category-2", "category-3", "category-4"} |->
        [isActive |-> TRUE]]

NoModifiers == [m \in {} |-> 0]

MenuSeed ==
    [i \in {"item-1", "item-2", "item-4"} |->
        CASE i = "item-1" -> [categoryId |-> "category-1", price |-> 8500,
                              isAvailable |-> TRUE,
                              modifiers |-> [m \in {"mod-1"} |-> 1000]]
          [] i = "item-2" -> [categoryId |-> "category-2", price |-> 9500,
                              isAvailable |-> FALSE,
                              modifiers |-> NoModifiers]
          [] i = "item-4" -> [categoryId |-> "category-3", price |-> 3500,
                              isAvailable |-> TRUE,
                              modifiers |-> NoModifiers]]

\* "09:00", "12:00", "22:00" as the characters of the string
T0900 == <<"0", "9", ":", "0", "0">>
T0830 == <<"0", "8", ":", "3", "0">>
T1930 == <<"1", "9", ":", "3", "0">>
T2000 == <<"2", "0", ":", "0", "0">>
T2030 == <<"2", "0", ":", "3", "0">>
T930 == <<"9", ":", "3", "0">>
T1000 == <<"1", "0", ":", "0", "0">>
T1200 == <<"1", "2", ":", "0", "0">>
T2200 == <<"2", "2", ":", "0", "0">>

\* opening hours: the same hours every day, the days in closedDays flagged is_closed
Hours(open, close, closedDays) ==
    [d \in Range(DayNames) |-> [open |-> open, close |-> close, is_closed |-> d \in closedDays]]

DeliverySeed == [fee |-> 2500, minimum_order |-> 15000, is_free_over_amount |-> None]
DeliveryFreeOver ==
    [fee |-> 2500, minimum_order |-> 15000, is_free_over_amount |-> Some(30000)]
DeliveryFreeOverZero ==
    [fee |-> 2500, minimum_order |-> 5000, is_free_over_amount |-> Some(0)]

Config(delivery, reservationsOn, hours) ==
    [isActive |-> TRUE, services |-> [reservations |-> reservationsOn],
     openingHours |-> hours, deliveryConfig |-> delivery]

InitStore(configChoices) ==
    /\ staff = StaffSeed
    /\ users = <<>>
    /\ configs \in configChoices
    /\ categories = CategorySeed
    /\ menu = MenuSeed
    /\ customers = <<>>
    /\ orders = <<>>
    /\ orderItems = <<>>
    /\ reservations = <<>>
    /\ req = [p \in Procs |-> Idle]
    /\ resp = NoResp
    /\ client = InitialClient

-----------------------------------------------------------------------------
(* Restaurant configuration: create *)

\* restaurant.create (admin only): restaurantConfig.findFirst() over every row,
\* CONFLICT when one exists
RestaurantCreate(p, slug) ==
    /\ req[p].pc = "ctx" /\ req[p].proc = "restaurant.create"
    /\ LET gate == Gate("admin", req[p].user)
           r == [req[p] EXCEPT !.ran = TRUE,
                    !.loc = [slug |-> slug, existing |-> Len(configs)]]
       IN IF gate # "next" THEN Fail(p, req[p], gate)
          ELSE IF configs # <<>> THEN Fail(p, r, "CONFLICT")
          ELSE Continue(p, [r EXCEPT !.pc = "cfg_insert"])
    /\ UNCHANGED store

\* restaurant.create: restaurantConfig.create; slug is a unique key of the table
RestaurantCreateInsert(p) ==
    /\ req[p].pc = "cfg_insert"
    /\ LET r == req[p] IN
       IF \E i \in DOMAIN configs : configs[i].slug = r.loc.slug
       THEN /\ Fail(p, r, "INTERNAL_SERVER_ERROR")
            /\ UNCHANGED configs
       ELSE /\ configs' = Append(configs,
                   Config(Some(DeliverySeed), TRUE, Hours(T0900, T2200, {}))
                       @@ [slug |-> r.loc.slug])
            /\ Done(p, [r EXCEPT !.wrote = {"restaurantConfig"}], "OK", Len(configs) + 1)
    /\ UNCHANGED <<staff, users, categories, menu, customers, orders, orderItems, reservations>>

-----------------------------------------------------------------------------
(* Orders: create, updateStatus and confirmPayment, interleaved *)

StaffToken(id) == [kind |-> "valid", userId |-> id, role |-> IssuedRole(id)]

OrderProcs == {"order.create", "order.updateStatus", "order.confirmPayment"}

TipInputs == {None, Some(0), Some(-500), Some(1000), Some(2000)}

InitOrder == InitStore({<<Config(Some(DeliverySeed), TRUE, Hours(T0900, T2200, {}))>>})

NextOrder ==
    \E p \in Procs :
        \/ \E proc \in OrderProcs : CreateContext(p, StaffToken("staff-3"), TRUE, proc)
        \/ /\ OrderRoom(MaxOrders)
           /\ \E t \in OrderTypes :
                 OrderCreateStart(p, t, "5550000001", "Ana", Null, FALSE, 1)
        \/ OrderCreateItem(p, [menuItemId |-> "item-1", quantity |-> 2, modifiers |-> <<>>])
        \/ OrderCreateConfig(p)
        \/ OrderCreateFindCustomer(p)
        \/ OrderCreateCustomerCreate(p)
        \/ OrderCreateInsert(p)
        \/ \E id \in 1..MaxOrders : OrderUpdateStatus(p, id, "READY", Null, "t1")
        \/ \E id \in 1..MaxOrders, tip \in TipInputs : OrderConfirmPayment(p, id, Null, tip)
        \/ OrderConfirmPaymentUpdate(p)

SpecOrder == InitOrder /\ [][NextOrder]_vars

\* C1: every persisted Order has total = subtotal + taxAmount + deliveryFee
\* + tipAmount - discountAmount, whatever the interleaving of create,
\* updateStatus and confirmPayment.
C1_TotalInvariant ==
    \A i \in DOMAIN orders :
        orders[i].total = orders[i].subtotal + orders[i].taxAmount + orders[i].deliveryFee
                          + orders[i].tipAmount - orders[i].discountAmount

\* C1 witness: a delivery order, marked ready, paid with a tip
C1_Witness ==
    \E i \in DOMAIN orders :
        /\ orders[i].tipAmount > 0 /\ orders[i].paymentStatus = "PAID"
        /\ orders[i].deliveryFee > 0 /\ orders[i].status = "READY"

\* C18: order.confirmPayment on an existing order sets paymentStatus = PAID;
\* with tip > 0 it stores tipAmount = tip and total = stored subtotal +
\* taxAmount + deliveryFee - discountAmount + tip (replacing an earlier tip);
\* with no tip or tip <= 0 it leaves tipAmount and total as they were; it never
\* changes status, subtotal, taxAmount, deliveryFee or discountAmount.
C18_ConfirmPayment ==
    [][(/\ resp'.proc = "order.confirmPayment" /\ resp'.ran
        /\ resp'.loc.id \in DOMAIN orders
        /\ (resp'.loc.tip # None /\ The(resp'.loc.tip) > 0) => resp'.loc.read # None)
          => LET tip == resp'.loc.tip
                 old == orders[resp'.loc.id]
                 new == orders'[resp'.loc.id]
             IN /\ resp'.result = "OK" /\ new.paymentStatus = "PAID"
                /\ IF tip # None /\ The(tip) > 0
                   THEN /\ new.tipAmount = The(tip)
                        /\ new.total = old.subtotal + old.taxAmount + old.deliveryFee
                                       - old.discountAmount + The(tip)
                   ELSE new.tipAmount = old.tipAmount /\ new.total = old.total
                /\ new.status = old.status /\ new.subtotal = old.subtotal
                /\ new.taxAmount = old.taxAmount /\ new.deliveryFee = old.deliveryFee
                /\ new.discountAmount = old.discountAmount]_vars

\* C18 witness: a call without tip on an order that carried a tip left the tip
C18_Witness ==
    /\ resp.proc = "order.confirmPayment" /\ resp.result = "OK"
    /\ resp.loc.tip = None /\ orders[resp.loc.id].tipAmount = 1000
    /\ orders[resp.loc.id].paymentStatus = "PAID"

-----------------------------------------------------------------------------
(* Pricing: order.create alone, over carts and delivery configurations *)

PricingConfigs ==
    {<<>>} \cup
    {<<Config(d, TRUE, Hours(T0900, T2200, {}))>> :
        d \in {None, Some(DeliverySeed), Some(DeliveryFreeOver),
                Some(DeliveryFreeOverZero)}}

ItemCounts == {1, 2}

\* lines of item-1 in every quantity, with and without modifiers; single
\* lines of a cheaper item, of an unavailable item and of an unknown item
ItemInputs ==
    [menuItemId : {"item-1"}, quantity : 1..MaxQty,
     modifiers : {<<>>, <<"mod-1", "mod-9">>}]
    \cup [menuItemId : {"item-2", "item-4", "item-9"}, quantity : {1}, modifiers : {<<>>}]

InitPricing == InitStore(PricingConfigs)

NextPricing ==
    \/ CreateContext("r1", NoToken, TRUE, "order.create")
    \/ /\ OrderRoom(MaxOrders)
       /\ \E t \in OrderTypes, n \in ItemCounts :
             OrderCreateStart("r1", t, "5550000001", "Ana", Null, FALSE, n)
    \/ \E item \in ItemInputs : OrderCreateItem("r1", item)
    \/ OrderCreateConfig("r1")
    \/ OrderCreateFindCustomer("r1")
    \/ OrderCreateCustomerCreate("r1")
    \/ OrderCreateInsert("r1")

SpecPricing == InitPricing /\ [][NextPricing]_vars

\* an order.create call has just ended after pricing its whole cart
PricedCart ==
    /\ resp.proc = "order.create"
    /\ resp.result \notin {"NOT_FOUND"}

\* the delivery configuration of the active RestaurantConfig, if there is one
ActiveDelivery == {The(c.deliveryConfig) : c \in {a \in ActiveConfigs : a.deliveryConfig # None}}

\* C2: an order.create call with orderType = DELIVERY whose subtotal is below the
\* active config's deliveryConfig.minimum_order fails with PRECONDITION_FAILED
\* and has written no row.
C2_DeliveryMinimum ==
    (PricedCart /\ resp.loc.orderType = "DELIVERY")
        => \A d \in ActiveDelivery :
              resp.loc.subtotal < d.minimum_order
                  => /\ resp.result = "PRECONDITION_FAILED"
                     /\ resp.wrote = {}

\* C2 witness: a two-line delivery cart under the minimum was refused
C2_Witness ==
    /\ resp.proc = "order.create" /\ resp.result = "PRECONDITION_FAILED"
    /\ resp.loc.subtotal > 0 /\ Len(resp.loc.processedItems) = 2

\* C3: a created DELIVERY order has deliveryFee 0 when is_free_over_amount is
\* configured and subtotal >= is_free_over_amount, and the configured fee
\* otherwise; a DINE_IN or TAKEOUT order has deliveryFee 0.
C3_DeliveryFee ==
    (resp.proc = "order.create" /\ resp.result = "OK")
        => LET o == orders[resp.out] IN
           /\ o.orderType # "DELIVERY" => o.deliveryFee = 0
           /\ o.orderType = "DELIVERY" =>
                \A d \in ActiveDelivery :
                    IF d.is_free_over_amount # None
                       /\ o.subtotal >= The(d.is_free_over_amount)
                    THEN o.deliveryFee = 0
                    ELSE o.deliveryFee = d.fee

\* C14: a created order has taxAmount = 16% of subtotal, tipAmount = 0,
\* discountAmount = 0 and total = subtotal + taxAmount + deliveryFee; a TAKEOUT
\* cart of one item priced 85.00 with quantity 2 is stored with subtotal
\* 170.00, tax 27.20, deliveryFee 0 and total 197.20 (amounts in centavos).
C14_Totals ==
    (resp.proc = "order.create" /\ resp.result = "OK")
        => LET o == orders[resp.out]
               lines == ItemsOf(resp.out)
           IN /\ o.taxAmount * 100 = o.subtotal * 16
              /\ o.tipAmount = 0 /\ o.discountAmount = 0
              /\ o.total = o.subtotal + o.taxAmount + o.deliveryFee
              /\ (/\ o.orderType = "TAKEOUT" /\ Len(lines) = 1
                  /\ lines[1].unitPrice = 8500 /\ lines[1].quantity = 2)
                    => /\ o.subtotal = 17000 /\ o.taxAmount = 2720
                       /\ o.deliveryFee = 0 /\ o.total = 19720

\* C14 witness: the TAKEOUT order of two items priced 85.00 was created
C14_Witness ==
    /\ resp.proc = "order.create" /\ resp.result = "OK"
    /\ orders[resp.out].orderType = "TAKEOUT" /\ orders[resp.out].subtotal = 17000
    /\ Len(ItemsOf(resp.out)) = 1

\* the price adjustments of the requested modifiers, 0 for those not on the item
RequestedAdjustments(requested, onItem) ==
    [k \in DOMAIN requested |->
        IF requested[k] \in DOMAIN onItem THEN onItem[requested[k]] ELSE 0]

\* C16: each line item priced by order.create has unitPrice = the MenuItem's
\* price plus the priceAdjustment of every requested modifier that belongs to
\* the item, a modifier snapshot holding exactly those modifiers, and
\* totalPrice = unitPrice * quantity; the lines are stored as priced and the
\* order's subtotal is the sum of their totalPrice.
C16_LinePricing ==
    [][/\ (req["r1"].pc = "oc_item" /\ req'["r1"].pc # "idle" /\ req'["r1"] # req["r1"])
          => LET item == The(req'["r1"].loc.item)
                 lines == req'["r1"].loc.processedItems
                 line == lines[Len(lines)]
                 row == menu[item.menuItemId]
                 adjustments == RequestedAdjustments(item.modifiers, row.modifiers)
             IN /\ line.unitPrice = row.price + SumSeq(adjustments)
                /\ Range(line.modifiers) =
                      {[id |-> m, priceAdjustment |-> row.modifiers[m]] :
                          m \in Range(item.modifiers) \cap DOMAIN row.modifiers}
                /\ Len(line.modifiers) =
                      Cardinality({k \in DOMAIN item.modifiers :
                                      item.modifiers[k] \in DOMAIN row.modifiers})
                /\ line.totalPrice = line.unitPrice * item.quantity
                /\ line.quantity = item.quantity /\ line.menuItemId = item.menuItemId
       /\ (req["r1"].pc = "oc_insert" /\ resp'.result = "OK")
          => LET ofOrder(row) == row.orderId = resp'.out
                 stored == SelectSeq(orderItems', ofOrder)
                 lines == resp'.loc.processedItems
             IN /\ Len(stored) = Len(lines)
                /\ \A k \in DOMAIN lines :
                      /\ stored[k].unitPrice = lines[k].unitPrice
                      /\ stored[k].totalPrice = lines[k].totalPrice
                      /\ stored[k].quantity = lines[k].quantity
                      /\ stored[k].modifiers = lines[k].modifiers
                /\ orders'[resp'.out].subtotal =
                      SumSeq([k \in DOMAIN stored |-> stored[k].totalPrice])]_vars

\* C16 witness: a stored line of item-1 with its modifier, twice
C16_Witness ==
    \E k \in DOMAIN orderItems :
        /\ orderItems[k].unitPrice = 9500 /\ orderItems[k].totalPrice = 19000
        /\ Len(orderItems[k].modifiers) = 1

-----------------------------------------------------------------------------
(* Customers: concurrent order.create and reservation.create by phone *)

CustomerProcs == {"order.create", "reservation.create"}

CustomerPhones == {"5550000001", "5550000002"}

Monday == 8

InitCust == InitStore({<<Config(Some(DeliverySeed), TRUE, Hours(T0900, T2200, {}))>>})

NextCust ==
    \E p \in Procs :
        \/ \E proc \in CustomerProcs : CreateContext(p, NoToken, TRUE, proc)
        \/ /\ OrderRoom(MaxCustomerOrders)
           /\ \E phone \in CustomerPhones :
                 OrderCreateStart(p, "TAKEOUT", phone, "Ana", Null, FALSE, 1)
        \/ OrderCreateItem(p, [menuItemId |-> "item-1", quantity |-> 1, modifiers |-> <<>>])
        \/ OrderCreateFindCustomer(p)
        \/ OrderCreateCustomerCreate(p)
        \/ OrderCreateInsert(p)
        \/ /\ ReservationRoom(MaxReservations)
           /\ \E phone \in CustomerPhones :
                 ReservationCreateStart(p, phone, "Ana", Monday, T1200)
        \/ ReservationCreateFindCustomer(p)
        \/ ReservationCreateCustomerCreate(p)
        \/ ReservationCreateInsert(p)

SpecCust == InitCust /\ [][NextCust]_vars

\* C4: there is at most one Customer row per phone, and every order.create
\* call with a valid cart succeeds and its order references the Customer row
\* of its phone, also when another call for the same phone runs concurrently.
C4_OneCustomerPerPhone ==
    /\ \A i, j \in DOMAIN customers : customers[i].phone = customers[j].phone => i = j
    /\ (resp.proc = "order.create" /\ resp.ran)
          => /\ resp.result = "OK"
             /\ orders[resp.out].customerId = FindCustomerByPhone(resp.loc.phone)

-----------------------------------------------------------------------------
(* Authentication and authorization: contexts and role-gated procedures *)

\* the role set of requireRole on each gated procedure
RoleGate ==
    [p \in {"auth.updateStaff", "auth.deactivateStaff"} |-> {"ADMIN"}]
    @@ [p \in {"order.getKitchenOrders"} |-> {"ADMIN", "KITCHEN"}]
    @@ [p \in {"menu.toggleAvailability", "order.updateStatus"}
           |-> {"ADMIN", "KITCHEN", "WAITER", "CASHIER"}]

AuthProcs ==
    {"auth.updateStaff", "auth.deactivateStaff", "order.getKitchenOrders",
     "menu.toggleAvailability"}

StaffIds == {"staff-1", "staff-2", "staff-3", "staff-4", "staff-9"}

\* the staffUser lookup fails (database error) only in requests where it is made
ContextInputs ==
    {<<tok, TRUE>> : tok \in BearerTokens(StaffIds)}
    \cup {<<StaffToken("staff-1"), FALSE>>}

InitAuth == InitStore({<<Config(Some(DeliverySeed), TRUE, Hours(T0900, T2200, {}))>>})

NextAuth ==
    \/ \E c \in ContextInputs, proc \in AuthProcs : CreateContext("r1", c[1], c[2], proc)
    \/ \E id \in {"staff-4", "staff-9"}, role \in {Null, "KITCHEN"},
          isActive \in {None, Some(TRUE)} : AuthUpdateStaff("r1", id, role, isActive)
    \/ \E id \in {"staff-2", "staff-9"} : AuthDeactivateStaff("r1", id)
    \/ OrderGetKitchenOrders("r1")
    \/ \E id \in {"item-2", "item-9"}, b \in BOOLEAN : MenuToggleAvailability("r1", id, b)

SpecAuth == InitAuth /\ [][NextAuth]_vars

\* C5: a procedure gated by requireRole(R) fails with UNAUTHORIZED when the
\* context has no user and with FORBIDDEN when the user's role is not in R,
\* in both cases without entering the handler and without changing the store;
\* with a user whose role is in R the handler runs.
C5_RequireRole ==
    [][resp'.proc \in DOMAIN RoleGate =>
          LET R == RoleGate[resp'.proc] IN
          /\ resp'.user = NoUser
                => resp'.result = "UNAUTHORIZED" /\ ~resp'.ran /\ store' = store
          /\ (resp'.user # NoUser /\ resp'.user.role \notin R)
                => resp'.result = "FORBIDDEN" /\ ~resp'.ran /\ store' = store
          /\ (resp'.user # NoUser /\ resp'.user.role \in R) => resp'.ran]_vars

\* C5 witness: a KITCHEN user was refused an admin-only procedure
C5_Witness ==
    /\ resp.proc = "auth.deactivateStaff" /\ resp.user.role = "KITCHEN"
    /\ resp.result = "FORBIDDEN"

\* the request carries a token that verifies, with the id of an active staff record
Authenticates(tok, lookupOk) ==
    /\ tok.kind = "valid" /\ tok.userId # Null /\ lookupOk
    /\ tok.userId \in DOMAIN staff /\ staff[tok.userId].isActive

\* C6: createContext never fails a request: every arriving request gets a
\* context, whose user is present exactly when the token verifies, carries a
\* userId and the staff record of that id exists and is active (and is that
\* record's id and role); otherwise the user is absent.
C6_CreateContext ==
    [][\A p \in Procs :
          (req[p].pc = "idle" /\ req'[p] # req[p])
             => /\ req'[p].pc = "ctx" /\ resp'.result = "none"
                /\ IF Authenticates(req'[p].tok, req'[p].lookupOk)
                   THEN req'[p].user = [id |-> req'[p].tok.userId,
                                        role |-> staff[req'[p].tok.userId].role]
                   ELSE req'[p].user = NoUser]_vars

\* C6 witness: a context without user was built for a verified token whose
\* staff record had been deactivated
C6_Witness ==
    /\ req["r1"].pc = "ctx" /\ req["r1"].tok = StaffToken("staff-2")
    /\ req["r1"].user = NoUser /\ ~staff["staff-2"].isActive

-----------------------------------------------------------------------------
(* Reservations: create, status changes, cancel and availability *)

ReservationProcs ==
    {"reservation.create", "reservation.getAvailableTimes", "reservation.update",
     "reservation.confirm", "reservation.markSeated", "reservation.cancel"}

InitRes == InitStore({<<Config(Some(DeliverySeed), TRUE, Hours(T0900, T1200, {}))>>})

NextRes ==
    \/ \E tok \in {NoToken, StaffToken("staff-3")}, proc \in ReservationProcs :
          CreateContext("r1", tok, TRUE, proc)
    \/ /\ ReservationRoom(MaxReservations)
       /\ \E time \in {T930, T1000} :
             ReservationCreateStart("r1", "5550000001", "Ana", Monday, time)
    \/ ReservationCreateFindCustomer("r1")
    \/ ReservationCreateCustomerCreate("r1")
    \/ ReservationCreateInsert("r1")
    \/ ReservationGetAvailableTimes("r1", Monday)
    \/ ReservationGetAvailableTimesRead("r1")
    \/ \E id \in 1..MaxReservations, status \in {Null, "COMPLETED"} :
          ReservationUpdate("r1", id, status)
    \/ \E id \in 1..MaxReservations : ReservationConfirm("r1", id)
    \/ \E id \in 1..MaxReservations : ReservationMarkSeated("r1", id)
    \/ \E id \in 1..MaxReservations, phone \in {Null, "", "5550000001", "5550000002"} :
          ReservationCancel("r1", id, phone)
    \/ ReservationCancelUpdate("r1")

SpecRes == InitRes /\ [][NextRes]_vars

\* C7: reservation.cancel without an authenticated user cancels a reservation
\* only when the phone supplied equals the reservation's customerPhone; such a
\* call with another phone or with no phone fails with FORBIDDEN and writes
\* nothing.
C7_CancelOwnership ==
    (/\ resp.proc = "reservation.cancel" /\ resp.user = NoUser
     /\ resp.loc.id \in DOMAIN reservations
     /\ resp.loc.phone # reservations[resp.loc.id].customerPhone)
        => resp.result = "FORBIDDEN" /\ resp.wrote = {}

\* the reservations of a date at the time of a slot whose status is not CANCELLED
NonCancelledAt(date, slot) ==
    {i \in DOMAIN reservations :
        /\ reservations[i].reservationDate = date
        /\ ToMinutes(reservations[i].reservationTime) = ToMinutes(slot)
        /\ reservations[i].status # "CANCELLED"}

\* C8: getAvailableTimes(date) returns no slot at whose date and time three or
\* more reservations with a status other than CANCELLED exist.
C8_SlotCapacity ==
    (resp.proc = "reservation.getAvailableTimes" /\ resp.result = "OK")
        => \A k \in DOMAIN resp.out :
              Cardinality(NonCancelledAt(resp.loc.date, resp.out[k])) < SlotCapacity

\* the procedures that take the id of a row to change
ReservationIdProcs ==
    {"reservation.update", "reservation.confirm", "reservation.markSeated",
     "reservation.cancel"}

\* C19: a call by an authorised caller of reservation.update, confirm,
\* markSeated or cancel (as of order.updateStatus and confirmPayment) whose id
\* matches no row fails with NOT_FOUND and changes nothing.
C19_MissingIdNotFound ==
    (/\ resp.proc \in ReservationIdProcs /\ resp.ran /\ resp.user # NoUser
     /\ resp.loc.id \notin DOMAIN reservations)
        => resp.result = "NOT_FOUND" /\ resp.wrote = {}

\* the status changes of the reservation state machine
ReservationTransitions ==
    {<<"PENDING", "CONFIRMED">>, <<"CONFIRMED", "SEATED">>, <<"SEATED", "COMPLETED">>,
     <<"PENDING", "CANCELLED">>, <<"CONFIRMED", "CANCELLED">>,
     <<"PENDING", "NO_SHOW">>, <<"CONFIRMED", "NO_SHOW">>}

\* C20: a reservation's status changes only along PENDING -> CONFIRMED ->
\* SEATED -> COMPLETED, and to CANCELLED or NO_SHOW only from PENDING or
\* CONFIRMED, whatever update, confirm, markSeated and cancel calls are made.
C20_ReservationStateMachine ==
    [][\A i \in DOMAIN reservations :
          reservations'[i].status # reservations[i].status
             => <<reservations[i].status, reservations'[i].status>>
                   \in ReservationTransitions]_vars

-----------------------------------------------------------------------------
(* Reservation window: reservation.create over days, times and configurations *)

Sunday == 14

\* no config; reservations disabled; Sundays closed, 09:00-22:00 and 12:00-22:00
WindowConfigs ==
    {<<>>,
     <<Config(Some(DeliverySeed), FALSE, Hours(T0900, T2200, {"sunday"}))>>,
     <<Config(Some(DeliverySeed), TRUE, Hours(T0900, T2200, {"sunday"}))>>,
     <<Config(Some(DeliverySeed), TRUE, Hours(T1200, T2200, {"sunday"}))>>}

WindowTimes == {T0830, T0900, T930, T1930, T2000, T2030}

InitWindow == InitStore(WindowConfigs)

NextWindow ==
    \/ CreateContext("r1", NoToken, TRUE, "reservation.create")
    \/ /\ ReservationRoom(MaxReservations)
       /\ \E date \in {Monday, Sunday}, time \in WindowTimes :
             ReservationCreateStart("r1", "5550000001", "Ana", date, time)
    \/ ReservationCreateFindCustomer("r1")
    \/ ReservationCreateCustomerCreate("r1")
    \/ ReservationCreateInsert("r1")

SpecWindow == InitWindow /\ [][NextWindow]_vars

\* the call's date falls on a weekday that the config it read flags is_closed
OnClosedDay ==
    /\ resp.proc = "reservation.create" /\ resp.loc.config # None
    /\ The(resp.loc.config).openingHours[DayOfWeek(resp.loc.date)].is_closed

\* C9 (as claimed): every reservation.create call on a weekday that the active
\* config flags is_closed fails with BAD_REQUEST and creates no row.
C9_ClosedDay == OnClosedDay => resp.result = "BAD_REQUEST" /\ resp.wrote = {}

\* C9 (amended): a reservation.create call on a weekday that the active config
\* flags is_closed creates no row; it fails with BAD_REQUEST when the config has
\* reservations enabled and with FORBIDDEN when it has them disabled.
C9_ClosedDayEnabled ==
    OnClosedDay =>
        /\ resp.wrote = {}
        /\ resp.result = IF The(resp.loc.config).services.reservations
                         THEN "BAD_REQUEST" ELSE "FORBIDDEN"

\* C9 witness: a Sunday request was refused with BAD_REQUEST
C9_Witness ==
    /\ OnClosedDay /\ resp.result = "BAD_REQUEST"
    /\ The(resp.loc.config).services.reservations

\* the call read a config with reservations enabled and its day is open
OnOpenDay ==
    /\ resp.proc = "reservation.create" /\ resp.loc.config # None
    /\ The(resp.loc.config).services.reservations
    /\ ~The(resp.loc.config).openingHours[DayOfWeek(resp.loc.date)].is_closed

\* C10: with reservations enabled and the day open, reservation.create accepts
\* the time t exactly when open <= t <= close - 120 and fails with BAD_REQUEST
\* otherwise; for 09:00-22:00, 19:30 and 20:00 are accepted, 20:30 is rejected.
C10_TimeWindow ==
    OnOpenDay =>
        LET day == The(resp.loc.config).openingHours[DayOfWeek(resp.loc.date)]
            t == ToMinutes(resp.loc.time)
            inWindow == ToMinutes(day.open) <= t
                          /\ t <= ToMinutes(day.close) - ReservationLeadMinutes
        IN /\ inWindow => resp.result = "OK" /\ "reservation" \in resp.wrote
           /\ ~inWindow => resp.result = "BAD_REQUEST" /\ resp.wrote = {}
           /\ (day.open = T0900 /\ day.close = T2200)
                 => /\ resp.loc.time \in {T1930, T2000} => resp.result = "OK"
                    /\ resp.loc.time = T2030 => resp.result = "BAD_REQUEST"

\* C10 witness: 20:00 was accepted for a day open 09:00-22:00
C10_Witness ==
    /\ OnOpenDay /\ resp.loc.time = T2000 /\ resp.result = "OK"
    /\ The(resp.loc.config).openingHours["monday"].close = T2200

-----------------------------------------------------------------------------
(* Items: order.create against a menu whose availability changes meanwhile *)

ItemProcs == {"order.create", "menu.toggleAvailability", "order.getActiveOrders"}

InitItems == InitStore({<<Config(Some(DeliverySeed), TRUE, Hours(T0900, T2200, {}))>>})

NextItems ==
    \E p \in Procs :
        \/ \E proc \in ItemProcs : CreateContext(p, StaffToken("staff-3"), TRUE, proc)
        \/ /\ OrderRoom(MaxOrders)
           /\ \E n \in ItemCounts :
                 OrderCreateStart(p, "TAKEOUT", "5550000001", "Ana", Null, FALSE, n)
        \/ \E id \in {"item-1", "item-2", "item-9"} :
              OrderCreateItem(p, [menuItemId |-> id, quantity |-> 1, modifiers |-> <<>>])
        \/ OrderCreateFindCustomer(p)
        \/ OrderCreateCustomerCreate(p)
        \/ OrderCreateInsert(p)
        \/ OrderCreateInsertFails(p)
        \/ \E id \in {"item-1", "item-2"}, b \in BOOLEAN : MenuToggleAvailability(p, id, b)
        \/ OrderGetActiveOrders(p)

SpecItems == InitItems /\ [][NextItems]_vars

\* C11: when the line item that order.create fetches names a MenuItem that
\* does not exist or is not available at that moment, the call ends there with
\* NOT_FOUND, having written no Order, OrderItem or Customer row, at whatever
\* position of the list the item stands; an item is priced only otherwise.
C11_ItemNotFound ==
    [][\A p \in Procs :
          (req[p].pc = "oc_item" /\ req'[p] # req[p])
             => LET ended == req'[p].pc = "idle"
                    loc == IF ended THEN resp'.loc ELSE req'[p].loc
                    id == The(loc.item).menuItemId
                IN IF id \notin DOMAIN menu \/ ~menu[id].isAvailable
                   THEN /\ ended /\ resp'.p = p /\ resp'.result = "NOT_FOUND"
                        /\ resp'.wrote = {} /\ store' = store
                   ELSE /\ ~ended
                        /\ Len(loc.processedItems) = Len(req[p].loc.processedItems) + 1]_vars

\* C11 witness: the second line item of a cart was refused because its item
\* had been made unavailable
C11_Witness ==
    /\ resp.proc = "order.create" /\ resp.result = "NOT_FOUND"
    /\ Len(resp.loc.processedItems) = 1
    /\ The(resp.loc.item).menuItemId = "item-1"

\* C12: an Order row and its OrderItem rows appear together: in every state
\* every OrderItem belongs to a stored Order, every stored Order has its line
\* items, a created order has one OrderItem per requested line, a failed
\* order.create has stored neither, and getActiveOrders returns each order
\* with its items.
C12_AtomicOrder ==
    /\ \A k \in DOMAIN orderItems : orderItems[k].orderId \in DOMAIN orders
    /\ \A i \in DOMAIN orders : ItemsOf(i) # <<>>
    /\ (resp.proc = "order.create" /\ resp.result = "OK")
          => /\ Len(ItemsOf(resp.out)) = Len(resp.loc.processedItems)
             /\ \A k \in DOMAIN resp.loc.processedItems :
                   ItemsOf(resp.out)[k].menuItemId = resp.loc.processedItems[k].menuItemId
    /\ (resp.proc = "order.create" /\ resp.result # "OK")
          => resp.wrote \cap {"order", "orderItem"} = {}
    /\ (resp.proc = "order.getActiveOrders" /\ resp.result = "OK")
          => \A o \in resp.out : o.orderItems # <<>> /\ o.orderItems = ItemsOf(o.id)

\* C12 witness: a reader listed a two-line order while another request ran
C12_Witness ==
    /\ resp.proc = "order.getActiveOrders" /\ resp.result = "OK"
    /\ \E o \in resp.out : Len(o.orderItems) = 2

\* C15: menu.toggleAvailability(id, v) on an existing item ends without error
\* and leaves isAvailable = v, whether or not the item already had that
\* value (so also when called twice in a row), and changes nothing else.
C15_ToggleIdempotent ==
    [][\A p \in Procs :
          (/\ req[p].pc = "ctx" /\ req[p].proc = "menu.toggleAvailability"
           /\ req'[p].pc = "idle" /\ resp'.ran /\ resp'.loc.id \in DOMAIN menu)
             => /\ resp'.result = "OK"
                /\ menu' = [menu EXCEPT ![resp'.loc.id].isAvailable = resp'.loc.isAvailable]
                /\ menu'[resp'.loc.id].isAvailable = resp'.loc.isAvailable
                /\ <<staff, users, configs, categories, customers, orders, orderItems, reservations>>' =
                      <<staff, users, configs, categories, customers, orders, orderItems, reservations>>]_vars

\* C15 witness: item-1 was set unavailable, set unavailable again, and is unavailable
C15_Witness ==
    /\ resp.proc = "menu.toggleAvailability" /\ resp.result = "OK"
    /\ resp.loc = [id |-> "item-1", isAvailable |-> FALSE]
    /\ ~menu["item-1"].isAvailable
    /\ req["r2"].proc = "menu.toggleAvailability" /\ req["r2"].pc = "ctx"

-----------------------------------------------------------------------------
(* Failures: order.create and reservation.create calls that end in an error *)

\* reservations disabled, or enabled with Sundays closed
FailureConfigs ==
    {<<Config(Some(DeliverySeed), FALSE, Hours(T0900, T2200, {"sunday"}))>>,
     <<Config(Some(DeliverySeed), TRUE, Hours(T0900, T2200, {"sunday"}))>>}

InitFail == InitStore(FailureConfigs)

NextFail ==
    \/ \E proc \in CustomerProcs : CreateContext("r1", NoToken, TRUE, proc)
    \/ /\ OrderRoom(MaxCustomerOrders)
       /\ \E t \in {"TAKEOUT", "DELIVERY"}, n \in ItemCounts :
             OrderCreateStart("r1", t, "5550000001", "Ana", Null, FALSE, n)
    \/ \E id \in {"item-1", "item-9"} :
          OrderCreateItem("r1", [menuItemId |-> id, quantity |-> 1, modifiers |-> <<>>])
    \/ OrderCreateConfig("r1")
    \/ OrderCreateFindCustomer("r1")
    \/ OrderCreateCustomerCreate("r1")
    \/ OrderCreateInsert("r1")
    \/ OrderCreateInsertFails("r1")
    \/ /\ ReservationRoom(MaxReservations)
       /\ \E date \in {Monday, Sunday}, time \in {T1200, T2030} :
             ReservationCreateStart("r1", "5550000002", "Luis", date, time)
    \/ ReservationCreateFindCustomer("r1")
    \/ ReservationCreateCustomerCreate("r1")
    \/ ReservationCreateInsert("r1")
    \/ ReservationCreateInsertFails("r1")

SpecFail == InitFail /\ [][NextFail]_vars

\* C13: an order.create or reservation.create call that ends in a failure
\* (NOT_FOUND, PRECONDITION_FAILED, FORBIDDEN, BAD_REQUEST, or a rejected final
\* insert) has written nothing: no Customer created or updated, no Order,
\* OrderItem or Reservation stored.
C13_NoPartialState ==
    (resp.proc \in CustomerProcs /\ resp.result \notin {"none", "OK"})
        => resp.wrote = {}

-----------------------------------------------------------------------------
(* Backfill: order.create calls for a customer that already exists *)

BackfillEmails == {Null, "ana@example.com", "ana@example.org"}

InitBackfill == InitStore({<<Config(Some(DeliverySeed), TRUE, Hours(T0900, T2200, {}))>>})

NextBackfill ==
    \E p \in Procs :
        \/ \E proc \in CustomerProcs : CreateContext(p, NoToken, TRUE, proc)
        \/ /\ customers = <<>> /\ Running("reservation.create") = {}
           /\ ReservationCreateStart(p, "5550000001", "Ana", Monday, T1200)
        \/ ReservationCreateFindCustomer(p)
        \/ ReservationCreateCustomerCreate(p)
        \/ ReservationCreateInsert(p)
        \/ /\ OrderRoom(MaxCustomerOrders)
           /\ \E name \in {"Ana", "Luis"}, email \in BackfillEmails :
                 OrderCreateStart(p, "TAKEOUT", "5550000001", name, email, TRUE, 1)
        \/ OrderCreateItem(p, [menuItemId |-> "item-1", quantity |-> 1, modifiers |-> <<>>])
        \/ OrderCreateFindCustomer(p)
        \/ OrderCreateCustomerCreate(p)
        \/ OrderCreateCustomerUpdate(p)
        \/ OrderCreateInsert(p)

SpecBackfill == InitBackfill /\ [][NextBackfill]_vars

\* C17: no step of order.create overwrites a non-empty name or email of an
\* existing Customer, and none changes an existing Customer's phone or
\* addresses: a stored name or email changes only while it is empty.
C17_NoOverwrite ==
    [][\A i \in DOMAIN customers :
          /\ customers'[i].phone = customers[i].phone
          /\ customers'[i].addresses = customers[i].addresses
          /\ customers[i].name # Null => customers'[i].name = customers[i].name
          /\ customers[i].email # Null => customers'[i].email = customers[i].email]_vars

-----------------------------------------------------------------------------
(* Order status: updateStatus by every staff role, from and to every status *)

StatusProcs == {"order.create", "order.updateStatus", "auth.updateStaff"}

\* two values of new Date()
Instants == {"t1", "t2"}

InitStatus == InitStore({<<Config(Some(DeliverySeed), TRUE, Hours(T0900, T2200, {}))>>})

\* the admin activates the cashier; every staff user sets every status
NextStatus ==
    \/ \E id \in DOMAIN StaffSeed, proc \in StatusProcs :
          CreateContext("r1", StaffToken(id), TRUE, proc)
    \/ AuthUpdateStaff("r1", "staff-4", Null, Some(TRUE))
    \/ /\ OrderRoom(MaxOrders)
       /\ OrderCreateStart("r1", "TAKEOUT", "5550000001", "Ana", Null, FALSE, 1)
    \/ OrderCreateItem("r1", [menuItemId |-> "item-1", quantity |-> 1, modifiers |-> <<>>])
    \/ OrderCreateFindCustomer("r1")
    \/ OrderCreateCustomerCreate("r1")
    \/ OrderCreateInsert("r1")
    \/ \E id \in 1..MaxOrders, status \in OrderStatuses :
          OrderUpdateStatus("r1", id, status, Null, "t1")

SpecStatus == InitStatus /\ [][NextStatus]_vars

\* an updateStatus call by a staff user on an order that exists ends in this step
StatusCallEnds ==
    /\ req["r1"].pc = "ctx" /\ req["r1"].proc = "order.updateStatus"
    /\ req'["r1"].pc = "idle"
    /\ req["r1"].user # NoUser /\ req["r1"].user.role \in StaffRoles
    /\ resp'.loc.id \in DOMAIN orders

\* C21: order.updateStatus applies no transition check: for every staff role,
\* every current status and every target status, the call on an existing
\* order succeeds and sets status to the target, regressions and moves out of
\* COMPLETED or CANCELLED included.
C21_NoTransitionCheck ==
    [][StatusCallEnds =>
          /\ resp'.result = "OK"
          /\ orders'[resp'.loc.id].status = resp'.loc.status]_vars

\* C21 witness: a cashier set a delivered order back to PENDING
C21_Witness ==
    /\ resp.proc = "order.updateStatus" /\ resp.result = "OK"
    /\ resp.user.role = "CASHIER" /\ resp.loc.status = "PENDING"
    /\ orders[resp.loc.id].status = "PENDING"
    /\ orders[resp.loc.id].deliveredAt # Null

\* the status calls of one waiter at two different times
NextStamps ==
    \/ \E proc \in {"order.create", "order.updateStatus"} :
          CreateContext("r1", StaffToken("staff-3"), TRUE, proc)
    \/ /\ OrderRoom(MaxOrders)
       /\ OrderCreateStart("r1", "TAKEOUT", "5550000001", "Ana", Null, FALSE, 1)
    \/ OrderCreateItem("r1", [menuItemId |-> "item-1", quantity |-> 1, modifiers |-> <<>>])
    \/ OrderCreateFindCustomer("r1")
    \/ OrderCreateCustomerCreate("r1")
    \/ OrderCreateInsert("r1")
    \/ \E id \in 1..MaxOrders, status \in OrderStatuses, now \in Instants :
          OrderUpdateStatus("r1", id, status, Null, now)

SpecStamps == InitStatus /\ [][NextStamps]_vars

\* C22: order.updateStatus sets readyAt exactly when the target is READY and
\* deliveredAt exactly when the target is DELIVERED; for every other target
\* both stamps keep their previous values; and the call never changes
\* paymentStatus, subtotal, taxAmount, deliveryFee, tipAmount, discountAmount,
\* total or orderNumber.
C22_StatusStamps ==
    [][(StatusCallEnds /\ resp'.result = "OK") =>
          LET old == orders[resp'.loc.id]
              new == orders'[resp'.loc.id]
              target == resp'.loc.status
          IN /\ new.readyAt = IF target = "READY" THEN resp'.loc.now ELSE old.readyAt
             /\ new.deliveredAt =
                   IF target = "DELIVERED" THEN resp'.loc.now ELSE old.deliveredAt
             /\ new.paymentStatus = old.paymentStatus /\ new.subtotal = old.subtotal
             /\ new.taxAmount = old.taxAmount /\ new.deliveryFee = old.deliveryFee
             /\ new.tipAmount = old.tipAmount /\ new.discountAmount = old.discountAmount
             /\ new.total = old.total /\ new.orderNumber = old.orderNumber
             /\ \A i \in DOMAIN orders : i # resp'.loc.id => orders'[i] = orders[i]]_vars

\* C22 witness: an order stamped ready at t1 and delivered at t2 was set back
\* to PREPARING and kept both stamps
C22_Witness ==
    /\ resp.proc = "order.updateStatus" /\ resp.result = "OK"
    /\ resp.loc.status = "PREPARING"
    /\ orders[resp.loc.id].readyAt = "t1" /\ orders[resp.loc.id].deliveredAt = "t2"

-----------------------------------------------------------------------------
(* Slot: reservation.create calls alone, all for the same date and time *)

InitSlot == InitStore({<<Config(Some(DeliverySeed), TRUE, Hours(T0900, T2200, {}))>>})

NextSlot ==
    \E p \in Procs :
        \/ CreateContext(p, NoToken, TRUE, "reservation.create")
        \/ /\ ReservationRoom(MaxSlotReservations)
           /\ \E phone \in CustomerPhones :
                 ReservationCreateStart(p, phone, "Ana", Monday, T1000)
        \/ ReservationCreateFindCustomer(p)
        \/ ReservationCreateCustomerCreate(p)
        \/ ReservationCreateInsert(p)

SpecSlot == InitSlot /\ [][NextSlot]_vars

\* the reservations holding a table at 10:00 of the Monday, as getAvailableTimes
\* counts them
HoldingSlot == ReservationCount(ExistingReservations(Monday), T1000)

\* C23: slot capacity is not enforced at creation: a reservation.create call
\* for an open day and a time inside the window is never refused for the
\* number of reservations its slot holds (it stores its PENDING row, or fails
\* only in creating its customer), so that more than 3 reservations with
\* status PENDING, CONFIRMED or SEATED come to exist for one slot.
C23_CapacityNotEnforced ==
    (resp.proc = "reservation.create" /\ resp.ran)
        => IF resp.result = "OK"
           THEN /\ resp.out = Len(reservations)
                /\ reservations[resp.out].status = "PENDING"
                /\ reservations[resp.out].reservationDate = resp.loc.date
                /\ Slice5(reservations[resp.out].reservationTime) = resp.loc.time
           ELSE /\ resp.result = "INTERNAL_SERVER_ERROR"
                /\ resp.loc.customer = 0 /\ resp.wrote = {}

\* C23 witness: a fourth reservation was stored for a slot that held three
C23_Witness ==
    /\ resp.proc = "reservation.create" /\ resp.result = "OK"
    /\ HoldingSlot > SlotCapacity

-----------------------------------------------------------------------------
(* Snapshots: the menu changes under stored orders and under orders being made *)

SnapshotProcs ==
    {"order.create", "menu.updateItem", "menu.toggleAvailability",
     "menu.updateModifier", "menu.deleteModifier"}

InitSnapshot == InitStore({<<Config(Some(DeliverySeed), TRUE, Hours(T0900, T2200, {}))>>})

NextSnapshot ==
    \E p \in Procs :
        \/ \E proc \in SnapshotProcs : CreateContext(p, StaffToken("staff-3"), TRUE, proc)
        \/ /\ OrderRoom(MaxOrders)
           /\ OrderCreateStart(p, "TAKEOUT", "5550000001", "Ana", Null, FALSE, 1)
        \/ OrderCreateItem(p, [menuItemId |-> "item-1", quantity |-> 2,
                               modifiers |-> <<"mod-1">>])
        \/ OrderCreateFindCustomer(p)
        \/ OrderCreateCustomerCreate(p)
        \/ OrderCreateInsert(p)
        \/ \E price \in {None, Some(9000)}, isAvailable \in {None, Some(FALSE)} :
              MenuUpdateItem(p, "item-1", price, isAvailable)
        \/ MenuToggleAvailability(p, "item-1", TRUE)
        \/ MenuUpdateModifier(p, "mod-1", 1500)
        \/ MenuDeleteModifier(p, "mod-1")

SpecSnapshot == InitSnapshot /\ [][NextSnapshot]_vars

\* C24: OrderItems are price snapshots: no menu.updateItem, toggleAvailability,
\* updateModifier or deleteModifier call (nor any other step) changes the
\* unitPrice, totalPrice or stored modifiers of an existing OrderItem, nor the
\* subtotal or total of the order that owns it.
C24_PriceSnapshot ==
    [][/\ \A k \in DOMAIN orderItems :
             /\ k \in DOMAIN orderItems'
             /\ orderItems'[k].unitPrice = orderItems[k].unitPrice
             /\ orderItems'[k].totalPrice = orderItems[k].totalPrice
             /\ orderItems'[k].modifiers = orderItems[k].modifiers
             /\ orderItems'[k].orderId = orderItems[k].orderId
       /\ \A i \in DOMAIN orders :
             /\ i \in DOMAIN orders'
             /\ orders'[i].subtotal = orders[i].subtotal
             /\ orders'[i].total = orders[i].total]_vars

\* C24 witness: the modifier of a stored line was deleted after the item's
\* price had been raised, and the line still carries the price and the
\* modifier it was ordered with
C24_Witness ==
    /\ resp.proc = "menu.deleteModifier" /\ resp.result = "OK"
    /\ menu["item-1"].price = 9000 /\ "mod-1" \notin DOMAIN menu["item-1"].modifiers
    /\ \E k \in DOMAIN orderItems :
          /\ orderItems[k].unitPrice = 9500 /\ orderItems[k].totalPrice = 19000
          /\ orderItems[k].modifiers = <<[id |-> "mod-1", priceAdjustment |-> 1000]>>
          /\ orders[orderItems[k].orderId].subtotal = 19000

-----------------------------------------------------------------------------
(* Configuration: restaurant.create calls on a deployment without a config *)

Slugs == {"demo-restaurant", "demo-2"}

InitConfig == InitStore({<<>>})

NextConfig ==
    \E p \in Procs :
        \/ \E id \in {"staff-1", "staff-2"} :
              CreateContext(p, StaffToken(id), TRUE, "restaurant.create")
        \/ \E slug \in Slugs : RestaurantCreate(p, slug)
        \/ RestaurantCreateInsert(p)

SpecConfig == InitConfig /\ [][NextConfig]_vars

\* C25: at most one RestaurantConfig row exists in every reachable state, also
\* after two interleaved restaurant.create calls by admins; a create issued
\* when a config exists fails with CONFLICT and adds no row.
C25_SingleConfig ==
    /\ Len(configs) <= 1
    /\ (resp.proc = "restaurant.create" /\ resp.ran /\ resp.loc.existing > 0)
          => resp.result = "CONFLICT" /\ resp.wrote = {}

-----------------------------------------------------------------------------
(* Categories: deleteCategory while the availability of items changes *)

CategoryProcs == {"menu.deleteCategory", "menu.toggleAvailability"}

\* a category with an available item, one with an unavailable item, one
\* without items, and an id that matches no category
CategoryIds == {"category-1", "category-2", "category-4", "category-9"}

InitCategory == InitStore({<<Config(Some(DeliverySeed), TRUE, Hours(T0900, T2200, {}))>>})

NextCategory ==
    \E p \in Procs :
        \/ \E proc \in CategoryProcs : CreateContext(p, StaffToken("staff-3"), TRUE, proc)
        \/ \E id \in CategoryIds : MenuDeleteCategory(p, id)
        \/ MenuDeleteCategoryUpdate(p)
        \/ \E b \in BOOLEAN : MenuToggleAvailability(p, "item-1", b)

SpecCategory == InitCategory /\ [][NextCategory]_vars

\* the category owns a MenuItem with isAvailable = true
OwnsAvailableItem(id) ==
    \E i \in DOMAIN menu : menu[i].categoryId = id /\ menu[i].isAvailable

\* C26: menu.deleteCategory fails with PRECONDITION_FAILED and leaves the
\* category unchanged when the category owns at least one MenuItem with
\* isAvailable = true (at the moment the call counts them); otherwise it sets
\* the category's isActive to false; no MenuCategory or MenuItem row is removed.
C26_DeleteCategory ==
    [][/\ DOMAIN categories' = DOMAIN categories /\ DOMAIN menu' = DOMAIN menu
       /\ \A p \in Procs :
             /\ (/\ req[p].pc = "ctx" /\ req[p].proc = "menu.deleteCategory"
                 /\ req'[p] # req[p] /\ req[p].user # NoUser)
                   => LET ended == req'[p].pc = "idle"
                          id == IF ended THEN resp'.loc.id ELSE req'[p].loc.id
                      IN /\ store' = store
                         /\ id \in DOMAIN categories =>
                               IF OwnsAvailableItem(id)
                               THEN ended /\ resp'.result = "PRECONDITION_FAILED"
                                          /\ resp'.wrote = {}
                               ELSE ~ended /\ req'[p].pc = "dc_update"
             /\ (/\ req[p].pc = "dc_update" /\ req'[p] # req[p]
                 /\ req[p].loc.id \in DOMAIN categories)
                   => /\ resp'.result = "OK"
                      /\ categories' =
                            [categories EXCEPT ![req[p].loc.id].isActive = FALSE]
                      /\ menu' = menu]_vars

\* C26 witness: category-1 was deactivated once its only item had been made
\* unavailable, and the item is still stored
C26_Witness ==
    /\ resp.proc = "menu.deleteCategory" /\ resp.result = "OK"
    /\ resp.loc.id = "category-1" /\ ~categories["category-1"].isActive
    /\ "item-1" \in DOMAIN menu /\ ~menu["item-1"].isAvailable

-----------------------------------------------------------------------------
(* Deactivation: staff records change while their tokens stay valid *)

DeactivationProcs ==
    {"auth.deactivateStaff", "auth.updateStaff", "order.getKitchenOrders"}

InitDeactivation ==
    InitStore({<<Config(Some(DeliverySeed), TRUE, Hours(T0900, T2200, {}))>>})

\* the admin and a kitchen user call; the kitchen user is deactivated,
\* reactivated, and moved to another role
NextDeactivation ==
    \E p \in Procs :
        \/ \E id \in {"staff-1", "staff-2"}, proc \in DeactivationProcs :
              CreateContext(p, StaffToken(id), TRUE, proc)
        \/ AuthDeactivateStaff(p, "staff-2")
        \/ \E role \in {Null, "WAITER", "ADMIN"}, isActive \in {None, Some(TRUE), Some(FALSE)} :
              AuthUpdateStaff(p, "staff-2", role, isActive)
        \/ OrderGetKitchenOrders(p)

SpecDeactivation == InitDeactivation /\ [][NextDeactivation]_vars

\* C27: a request whose context is built while the staff record of its
\* (valid, unexpired) token is inactive, as after deactivateStaff or updateStaff
\* with isActive = false completed, gets no ctx.user, and every gated procedure
\* then fails with UNAUTHORIZED; the role of ctx.user is the role stored on
\* the record at request time, not the role written in the token; and no
\* step deletes a staff row.
C27_Deactivation ==
    [][/\ DOMAIN staff' = DOMAIN staff
       /\ \A p \in Procs :
             /\ (/\ req[p].pc = "idle" /\ req'[p] # req[p]
                 /\ req'[p].tok.kind = "valid" /\ req'[p].tok.userId \in DOMAIN staff)
                   => IF staff[req'[p].tok.userId].isActive
                      THEN req'[p].user = [id |-> req'[p].tok.userId,
                                           role |-> staff[req'[p].tok.userId].role]
                      ELSE req'[p].user = NoUser
             /\ (/\ req[p].pc = "ctx" /\ req'[p] # req[p]
                 /\ req[p].proc \in DOMAIN RoleGate)
                   => /\ req[p].user = NoUser
                           => /\ resp'.result = "UNAUTHORIZED" /\ ~resp'.ran
                              /\ store' = store
                      /\ (req[p].user # NoUser /\ resp'.result = "FORBIDDEN")
                           => req[p].user.role \notin RoleGate[req[p].proc]
                      /\ (req[p].user # NoUser /\ resp'.result # "FORBIDDEN")
                           => req[p].user.role \in RoleGate[req[p].proc]]_vars

\* C27 witness: the valid token of the kitchen user, whose record an admin had
\* deactivated, was refused with UNAUTHORIZED
C27_Witness ==
    /\ resp.proc = "order.getKitchenOrders" /\ resp.result = "UNAUTHORIZED"
    /\ resp.tok = StaffToken("staff-2") /\ resp.user = NoUser
    /\ ~staff["staff-2"].isActive

-----------------------------------------------------------------------------
(* Registration: public register calls, and the tokens they issue in use *)

RegisterEmails == {"ana@example.com", "luis@example.com"}

\* no role in the input, the customer role, and two staff roles
RegisterRoles == {Null, "CUSTOMER", "ADMIN", "KITCHEN"}

\* the tokens that register has issued so far
IssuedTokens == {SignToken(users[i]) : i \in DOMAIN users}

InitRegister == InitStore({<<Config(Some(DeliverySeed), TRUE, Hours(T0900, T2200, {}))>>})

NextRegister ==
    \E p \in Procs :
        \/ CreateContext(p, NoToken, TRUE, "auth.register")
        \/ \E tok \in IssuedTokens : CreateContext(p, tok, TRUE, "order.getKitchenOrders")
        \/ /\ UserRoom(MaxUsers)
           /\ \E email \in RegisterEmails, role \in RegisterRoles :
                 AuthRegister(p, email, role)
        \/ AuthRegisterInsert(p)
        \/ OrderGetKitchenOrders(p)

SpecRegister == InitRegister /\ [][NextRegister]_vars

\* C28: the public auth.register procedure never creates an identity, nor
\* issues a token, whose role is a staff role (ADMIN, KITCHEN, WAITER,
\* CASHIER).
C28_RegisterNoStaffRole ==
    /\ \A i \in DOMAIN users : users[i].role \notin StaffRoles
    /\ (resp.proc = "auth.register" /\ resp.result = "OK")
          => resp.out.token.role \notin StaffRoles

-----------------------------------------------------------------------------
(* Booking window: getAvailableTimes against the checks of reservation.create *)

\* no config; reservations disabled; Sundays closed and 09:00-12:00,
\* 9:30-12:00 (hour not padded), 10:00-12:00 (one slot), 10:00-11:30 (none)
TimesConfigs ==
    {<<>>, <<Config(Some(DeliverySeed), FALSE, Hours(T0900, T1200, {"sunday"}))>>}
    \cup {<<Config(Some(DeliverySeed), TRUE, Hours(open, close, {"sunday"}))>> :
             open \in {T0900, T930, T1000}, close \in {T1200, <<"1", "1", ":", "3", "0">>}}

InitTimes == InitStore(TimesConfigs)

NextTimes ==
    \/ \E proc \in {"reservation.getAvailableTimes", "reservation.create"} :
          CreateContext("r1", NoToken, TRUE, proc)
    \/ \E date \in {Monday, Sunday} : ReservationGetAvailableTimes("r1", date)
    \/ ReservationGetAvailableTimesRead("r1")
    \/ /\ ReservationRoom(MaxReservations)
       /\ \E time \in {T0900, T1000} :
             ReservationCreateStart("r1", "5550000001", "Ana", Monday, time)
    \/ ReservationCreateFindCustomer("r1")
    \/ ReservationCreateCustomerCreate("r1")
    \/ ReservationCreateInsert("r1")

SpecTimes == InitTimes /\ [][NextTimes]_vars

\* C29: getAvailableTimes and reservation.create agree on the booking window:
\* every slot returned lies on a 30-minute step from the opening time,
\* satisfies open <= slot <= close - 120 and passes the checks of
\* reservation.create for the same config and date; when the day is closed,
\* reservations are disabled or no config exists, the call returns an empty
\* list instead of an error.
C29_WindowAgreement ==
    resp.proc = "reservation.getAvailableTimes" =>
        /\ resp.result = "OK"
        /\ LET config == resp.loc.config
               date == resp.loc.date
           IN IF \/ config = None
                 \/ ~The(config).services.reservations
                 \/ The(config).openingHours[DayOfWeek(date)].is_closed
              THEN resp.out = <<>>
              ELSE LET day == The(config).openingHours[DayOfWeek(date)]
                       open == ToMinutes(day.open)
                       close == ToMinutes(day.close)
                   IN \A k \in DOMAIN resp.out :
                         LET m == ToMinutes(resp.out[k])
                         IN /\ (m - open) % 30 = 0
                            /\ open <= m /\ m <= close - 120
                            /\ ReservationChecks(config, date, resp.out[k]) = "next"

\* C29 witness: for 9:30-12:00 the call returned 09:30 and 10:00, the last
\* slot two hours before closing
C29_Witness ==
    /\ resp.proc = "reservation.getAvailableTimes" /\ resp.result = "OK"
    /\ resp.out = <<<<"0", "9", ":", "3", "0">>, T1000>>
    /\ The(resp.loc.config).openingHours["monday"].open = T930

-----------------------------------------------------------------------------
(* Client cart store *)

\* the same item offered at two prices, and a second item
CartInputs ==
    {[id |-> "item-1", price |-> 8500], [id |-> "item-1", price |-> 9500],
     [id |-> "item-4", price |-> 3500]}

CartIds == {"item-1", "item-4"}

\* -1, 0, the fraction 1/Scale, 1, and the largest quantity
Quantities == {-Scale, 0, 1, Scale, MaxCartQty * Scale}

NextCart ==
    \/ \E item \in CartInputs : AddToCart(item, MaxCartQty)
    \/ \E id \in CartIds : RemoveFromCart(id)
    \/ \E id \in CartIds, quantity \in Quantities : UpdateQuantity(id, quantity)
    \/ ClearCart
    \/ AuthPageOnSuccess("user-1")
    \/ \E session \in {None, Some([id |-> "user-1", role |-> Null])} :
          SyncWithSession(session)
    \/ Logout(MaxSignOuts)
    \/ LogoutSignedOut
    \/ LogoutSignOutRejected

SpecCart == InitOrder /\ [][NextCart]_vars

\* the items of the cart have different ids and quantities of at least 1,
\* and getCartTotal is the sum of price * quantity over the items
CartInvariant ==
    LET items == client.cartItems
    IN /\ \A i, j \in DOMAIN items : i # j => items[i].id # items[j].id
       /\ \A k \in DOMAIN items : items[k].quantity >= Scale
       /\ getCartTotal(items)
             = SumSeq([k \in DOMAIN items |-> items[k].price * items[k].quantity])

\* the quantity of the item with the id in the cart (one item at most)
QuantityOf(cartItems, id) ==
    LET k == CHOOSE k \in DOMAIN cartItems : cartItems[k].id = id
    IN cartItems[k].quantity

\* what the call that returns in this step did to the store
CartCalls ==
    LET call == client'.ret
    IN /\ (call.op = "addToCart" /\ InCart(client.cartItems, call.id))
             => /\ InCart(client'.cartItems, call.id)
                /\ QuantityOf(client'.cartItems, call.id)
                      = QuantityOf(client.cartItems, call.id) + Scale
       /\ (call.op = "updateQuantity" /\ call.quantity <= 0)
             => ~InCart(client'.cartItems, call.id)
       /\ call.op = "logout"
             => /\ client'.cartItems = <<>>
                /\ ~client'.isAuthenticated
                /\ client'.user = None

\* C30: after any sequence of addToCart, updateQuantity, removeFromCart,
\* clearCart and logout calls from the initial store, no two cart items share
\* an id and every cart item has quantity >= 1 (addToCart on a present id
\* increments its quantity by 1, updateQuantity with quantity <= 0 removes the
\* item); getCartTotal equals the sum of price * quantity over the items; and
\* logout leaves the cart empty with isAuthenticated = false and user = null.
C30_CartStore == []CartInvariant /\ [][CartCalls]_vars

====
